---- MODULE Spec2Model ----
(***************************************************************************)
(* The command-line parsing subsystem of the bot (commandParsers.py): the  *)
(* quote-aware tokenizer, the value-consumption helper and the seven       *)
(* per-command grammars.                                                   *)
(*                                                                         *)
(* A Python str is a sequence of one-character strings.  A Python index is *)
(* kept 0-based, as in the source, so tokens[i] of the source is           *)
(* tokens[i + 1] here.  An Optional value is None (the empty tuple) or     *)
(* Some(v) (the one-element tuple <<v>>).  An error message is a record    *)
(* [flag, text, arg]: the flag name the message starts with ("" when it    *)
(* starts with none), the literal text, and the interpolated token.        *)
(***************************************************************************)
EXTENDS Integers, Sequences, FiniteSets, TLC

\* ------------------------------------------------------------------------
\* Python built-ins used by the parsers
\* ------------------------------------------------------------------------

None == <<>>

Some(v) == <<v>>

\* Python truthiness of an Optional[str]: None and '' are falsy.
Truthy(v) == v # None /\ v[1] # <<>>

Digits == <<"0", "1", "2", "3", "4", "5", "6", "7", "8", "9">>

UpperChars ==
  <<"A", "B", "C", "D", "E", "F", "G", "H", "I", "J", "K", "L", "M",
    "N", "O", "P", "Q", "R", "S", "T", "U", "V", "W", "X", "Y", "Z">>

LowerChars ==
  <<"a", "b", "c", "d", "e", "f", "g", "h", "i", "j", "k", "l", "m",
    "n", "o", "p", "q", "r", "s", "t", "u", "v", "w", "x", "y", "z">>

isspace(c) == c = " "

isdigit_char(c) == \E k \in 1..Len(Digits) : Digits[k] = c

\* str.isdigit(): non-empty and every character a digit.
isdigit(s) == Len(s) > 0 /\ \A k \in 1..Len(s) : isdigit_char(s[k])

lower_char(c) ==
  IF \E k \in 1..Len(UpperChars) : UpperChars[k] = c
  THEN LowerChars[CHOOSE k \in 1..Len(UpperChars) : UpperChars[k] = c]
  ELSE c

\* The string as it is, where the code calls .lower().
lower_left_out(s) == s

\* str.lower()
lower(s) == [k \in 1..Len(s) |-> lower_char(s[k])]

\* str.startswith(p)
startswith(s, p) == Len(s) >= Len(p) /\ SubSeq(s, 1, Len(p)) = p

SetMin(S) == CHOOSE m \in S : \A n \in S : m <= n

SetMax(S) == CHOOSE m \in S : \A n \in S : m >= n

\* str.strip(): leading and trailing whitespace removed.
strip(s) ==
  LET keep == {k \in 1..Len(s) : ~isspace(s[k])}
  IN  IF keep = {} THEN <<>> ELSE SubSeq(s, SetMin(keep), SetMax(keep))

\* s[n:]
DropFirst(s, n) == SubSeq(s, n + 1, Len(s))

RECURSIVE split_from(_, _, _, _)
split_from(s, k, cur, acc) ==
  IF k > Len(s)
  THEN IF cur # <<>> THEN Append(acc, cur) ELSE acc
  ELSE IF isspace(s[k])
       THEN split_from(s, k + 1, <<>>, IF cur # <<>> THEN Append(acc, cur) ELSE acc)
       ELSE split_from(s, k + 1, Append(cur, s[k]), acc)

\* str.split(): the maximal runs of non-whitespace characters.
split(s) == split_from(s, 1, <<>>, <<>>)

\* str.split(None, 1): the first word and, when something follows it, the
\* rest of the string with the separating whitespace removed.
split_once(s) ==
  LET t     == strip(s)
      ws    == {k \in 1..Len(t) : isspace(t[k])}
      first == IF ws = {} THEN t ELSE SubSeq(t, 1, SetMin(ws) - 1)
      rest  == IF ws = {} THEN <<>>
               ELSE LET r  == DropFirst(t, SetMin(ws))
                        nk == {k \in 1..Len(r) : ~isspace(r[k])}
                    IN  IF nk = {} THEN <<>> ELSE DropFirst(r, SetMin(nk) - 1)
  IN  IF t = <<>> THEN <<>> ELSE IF rest = <<>> THEN <<first>> ELSE <<first, rest>>

RECURSIVE join_from(_, _)
join_from(parts, k) ==
  IF k > Len(parts) THEN <<>>
  ELSE IF k = Len(parts) THEN parts[k]
  ELSE parts[k] \o <<" ">> \o join_from(parts, k + 1)

\* ' '.join(parts)
join(parts) == join_from(parts, 1)

digit_value(c) == (CHOOSE k \in 1..Len(Digits) : Digits[k] = c) - 1

RECURSIVE nat_value(_)
nat_value(s) ==
  IF s = <<>> THEN 0
  ELSE 10 * nat_value(SubSeq(s, 1, Len(s) - 1)) + digit_value(s[Len(s)])

\* The numeric literals int() accepts among the strings of the model:
\* optional surrounding whitespace, an optional sign, one or more digits.
\* Anything else raises ValueError.
int_ok(s) ==
  LET t == strip(s)
      u == IF t # <<>> /\ t[1] \in {"-", "+"} THEN DropFirst(t, 1) ELSE t
  IN  isdigit(u)

int_value(s) ==
  LET t == strip(s)
      u == IF t[1] \in {"-", "+"} THEN DropFirst(t, 1) ELSE t
  IN  IF t[1] = "-" THEN 0 - nat_value(u) ELSE nat_value(u)

\* float() on the strings of the model: the alphabet has no '.', no
\* exponent and spells no 'inf' or 'nan', so the accepted literals are the
\* signed integers and the value is that integer (5.0 is 5).
float_ok(s) == int_ok(s)

float_value(s) == int_value(s)

Error(flag, text, arg) == [flag |-> flag, text |-> text, arg |-> arg]

\* ------------------------------------------------------------------------
\* Helper functions
\* ------------------------------------------------------------------------

\* A stop condition without the digit exemption: every token that starts
\* with '-' and is longer than one character ends a value.
is_flag_like_any_dash(token) ==
  /\ Len(token) > 0 /\ token[1] = "-"
  /\ Len(token) > 1

\* A token that ends a value: it starts with '-', is longer than one
\* character and its second character is not a digit.
is_flag_like(token) ==
  /\ Len(token) > 0 /\ token[1] = "-"
  /\ Len(token) > 1
  /\ ~isdigit_char(token[2])

\* A collecting loop that looks at the token after the one it collects, and
\* so stops one token early.
consume_stop_one_early(tokens, start_idx) ==
  LET stops == {k \in start_idx..(Len(tokens) - 1) :
                  k + 1 < Len(tokens) /\ is_flag_like(tokens[k + 2])}
  IN  IF stops = {} THEN Len(tokens) ELSE SetMin(stops)

\* The index at which the collecting loop of _consume_value stops: the
\* first flag-like token at or after start_idx, or len(tokens).
consume_stop(tokens, start_idx) ==
  LET stops == {k \in start_idx..(Len(tokens) - 1) : is_flag_like(tokens[k + 1])}
  IN  IF stops = {} THEN Len(tokens) ELSE SetMin(stops)

\* A helper that does not count the tokens of the value it found.
_consume_value_not_counted(tokens, start_idx) ==
  IF start_idx >= Len(tokens)
  THEN [value |-> None, consumed |-> 1]
  ELSE LET stop   == consume_stop(tokens, start_idx)
           values == SubSeq(tokens, start_idx + 1, stop)
       IN  IF values # <<>>
           THEN [value |-> Some(join(values)), consumed |-> 0]
           ELSE [value |-> None, consumed |-> 1]

\* A helper that takes one token only, where _consume_value collects the
\* whole run.
_consume_value_one_token(tokens, start_idx) ==
  IF start_idx >= Len(tokens) \/ is_flag_like(tokens[start_idx + 1])
  THEN [value |-> None, consumed |-> 1]
  ELSE [value |-> Some(tokens[start_idx + 1]), consumed |-> 2]

\* _consume_value(tokens, start_idx) -> (value, consumed)
_consume_value(tokens, start_idx) ==
  IF start_idx >= Len(tokens)
  THEN [value |-> None, consumed |-> 1]
  ELSE LET stop   == consume_stop(tokens, start_idx)
           values == SubSeq(tokens, start_idx + 1, stop)
       IN  IF values # <<>>
           THEN [value |-> Some(join(values)),
                 consumed |-> (stop - 1) - start_idx + 2]
           ELSE [value |-> None, consumed |-> 1]

\* A tokenizer that knows the single quote only.
QuoteChars_single_only == {"'"}

QuoteChars == {"\"", "'"}

\* A tokenizer in which only the backslash can be escaped.
EscapableChars_backslash_only == {"\\"}

EscapableChars == {"\"", "'", "\\"}

TokenizerStart ==
  [i |-> 0, tokens |-> <<>>, current_token |-> <<>>,
   in_quotes |-> FALSE, quote_char |-> ""]

\* An iteration in which a closing quote emits a non-empty buffer only.
tokenize_step_drops_empty(text, st) ==
  LET char == text[st.i + 1]
  IN  IF /\ char = "\\" /\ st.in_quotes /\ st.i + 1 < Len(text)
         /\ text[st.i + 2] \in EscapableChars
      THEN [st EXCEPT !.current_token = Append(@, text[st.i + 2]), !.i = @ + 2]
      ELSE IF char \in QuoteChars
      THEN IF ~st.in_quotes
           THEN [st EXCEPT !.in_quotes = TRUE, !.quote_char = char, !.i = @ + 1]
           ELSE IF char = st.quote_char
           THEN [st EXCEPT !.in_quotes = FALSE, !.quote_char = "",
                           !.tokens = IF st.current_token # <<>>
                                      THEN Append(@, st.current_token) ELSE @,
                           !.current_token = <<>>, !.i = @ + 1]
           ELSE [st EXCEPT !.current_token = Append(@, char), !.i = @ + 1]
      ELSE IF isspace(char) /\ ~st.in_quotes
      THEN [st EXCEPT !.tokens = IF st.current_token # <<>>
                                 THEN Append(@, st.current_token) ELSE @,
                      !.current_token = <<>>, !.i = @ + 1]
      ELSE [st EXCEPT !.current_token = Append(@, char), !.i = @ + 1]

\* An iteration in which either quote character closes the open region.
tokenize_step_any_quote_closes(text, st) ==
  LET char == text[st.i + 1]
  IN  IF /\ char = "\\" /\ st.in_quotes /\ st.i + 1 < Len(text)
         /\ text[st.i + 2] \in EscapableChars
      THEN [st EXCEPT !.current_token = Append(@, text[st.i + 2]), !.i = @ + 2]
      ELSE IF char \in QuoteChars
      THEN IF ~st.in_quotes
           THEN [st EXCEPT !.in_quotes = TRUE, !.quote_char = char, !.i = @ + 1]
           ELSE [st EXCEPT !.in_quotes = FALSE, !.quote_char = "",
                           !.tokens = Append(@, st.current_token),
                           !.current_token = <<>>, !.i = @ + 1]
      ELSE IF isspace(char) /\ ~st.in_quotes
      THEN [st EXCEPT !.tokens = IF st.current_token # <<>>
                                 THEN Append(@, st.current_token) ELSE @,
                      !.current_token = <<>>, !.i = @ + 1]
      ELSE [st EXCEPT !.current_token = Append(@, char), !.i = @ + 1]

\* One iteration of the scanning loop of _tokenize.
tokenize_step(text, st) ==
  LET char == text[st.i + 1]
  IN  IF /\ char = "\\" /\ st.in_quotes /\ st.i + 1 < Len(text)
         /\ text[st.i + 2] \in EscapableChars
      THEN [st EXCEPT !.current_token = Append(@, text[st.i + 2]), !.i = @ + 2]
      ELSE IF char \in QuoteChars
      THEN IF ~st.in_quotes
           THEN [st EXCEPT !.in_quotes = TRUE, !.quote_char = char, !.i = @ + 1]
           ELSE IF char = st.quote_char
           THEN [st EXCEPT !.in_quotes = FALSE, !.quote_char = "",
                           !.tokens = Append(@, st.current_token),
                           !.current_token = <<>>, !.i = @ + 1]
           ELSE [st EXCEPT !.current_token = Append(@, char), !.i = @ + 1]
      ELSE IF isspace(char) /\ ~st.in_quotes
      THEN [st EXCEPT !.tokens = IF st.current_token # <<>>
                                 THEN Append(@, st.current_token) ELSE @,
                      !.current_token = <<>>, !.i = @ + 1]
      ELSE [st EXCEPT !.current_token = Append(@, char), !.i = @ + 1]

\* A return without the final flush.
tokenize_finish_no_flush(st) == st.tokens

\* A final flush that drops the token of a region left open.
tokenize_finish_drops_open(st) ==
  IF st.current_token # <<>> /\ ~st.in_quotes
  THEN Append(st.tokens, st.current_token) ELSE st.tokens

\* The final flush of _tokenize.
tokenize_finish(st) ==
  IF st.current_token # <<>> THEN Append(st.tokens, st.current_token) ELSE st.tokens

RECURSIVE tokenize_loop(_, _)
tokenize_loop(text, st) ==
  IF st.i < Len(text) THEN tokenize_loop(text, tokenize_step(text, st)) ELSE st

\* _tokenize(text) -> tokens
_tokenize(text) == tokenize_finish(tokenize_loop(text, TokenizerStart))


\* ------------------------------------------------------------------------
\* Results of one step of a grammar
\* ------------------------------------------------------------------------

\* The loop index and the command object after one iteration of a grammar's
\* token loop; exc names the exception the iteration raised, if any.
Outcome(i, cmd) == [i |-> i, cmd |-> cmd, exc |-> "none"]

Raised(i, cmd, exc) == [i |-> i, cmd |-> cmd, exc |-> exc]

\* cmd.errors.append(e)
AddError(cmd, e) == [cmd EXCEPT !.errors = Append(@, e)]

\* What the code before a grammar's token loop hands on: the command
\* object, whether the function already returned, and the tokens.
Entered(cmd, tokens) == [returned |-> FALSE, cmd |-> cmd, tokens |-> tokens]

Returned(cmd) == [returned |-> TRUE, cmd |-> cmd, tokens |-> <<>>]

\* text.startswith(prefix) and then text[len(prefix):].strip()
strip_prefix(command_text, prefix) ==
  LET text == strip(command_text)
  IN  IF startswith(text, prefix) THEN strip(DropFirst(text, Len(prefix))) ELSE text

\* ------------------------------------------------------------------------
\* Chat command
\* ------------------------------------------------------------------------

ChatCommand ==
  [llm |-> None, model |-> None, prompt_action |-> None, prompt_value |-> None,
   message |-> None, show_models |-> FALSE, show_status |-> FALSE,
   clear_history |-> FALSE, listen_mode |-> None, errors |-> <<>>]

\* ChatCommand.has_action
chat_has_action(cmd) ==
  \/ cmd.llm # None
  \/ cmd.model # None
  \/ cmd.prompt_action # None
  \/ cmd.message # None
  \/ cmd.show_models
  \/ cmd.show_status
  \/ cmd.clear_history
  \/ cmd.listen_mode # None

ChatLlmFlags == {<<"-", "-", "l", "l", "m">>, <<"-", "l">>}

ChatModelFlags == {<<"-", "-", "m", "o", "d", "e", "l">>, <<"-", "m">>}

ChatPromptFlags == {<<"-", "-", "p", "r", "o", "m", "p", "t">>, <<"-", "p">>}

ChatSendFlags == {<<"-", "-", "s", "e", "n", "d">>, <<"-", "s">>}

ChatModelsFlags == {<<"-", "-", "m", "o", "d", "e", "l", "s">>}

ChatStatusFlags == {<<"-", "-", "s", "t", "a", "t", "u", "s">>, <<"-", "s", "t">>}

ChatClearFlags == {<<"-", "-", "c", "l", "e", "a", "r">>, <<"-", "c">>}

ChatListenFlags == {<<"-", "-", "l", "i", "s", "t", "e", "n">>}

parse_chat_entry(command_text) ==
  LET text == strip_prefix(command_text, <<"$", "c", "h", "a", "t">>)
  IN  IF text = <<>>
      THEN Returned([ChatCommand EXCEPT !.show_status = TRUE])
      ELSE Entered(ChatCommand, _tokenize(text))

chat_llm(tokens, i, cmd) ==
  LET cv == _consume_value(tokens, i + 1)
  IN  IF Truthy(cv.value)
      THEN Outcome(i + cv.consumed, [cmd EXCEPT !.llm = Some(lower(cv.value[1]))])
      ELSE Outcome(i + 1,
             AddError(cmd, Error("--llm", "requires a value (chatgpt/gemini/deepseek)", <<>>)))

chat_model(tokens, i, cmd) ==
  LET cv == _consume_value(tokens, i + 1)
  IN  IF Truthy(cv.value)
      THEN Outcome(i + cv.consumed, [cmd EXCEPT !.model = cv.value])
      ELSE Outcome(i + 1, AddError(cmd, Error("--model", "requires a model name", <<>>)))

chat_prompt_set(tokens, i, cmd, consumed) ==
  LET tv == _consume_value(tokens, i + consumed)
  IN  IF Truthy(tv.value)
      THEN Outcome(i + consumed + tv.consumed - 1,
             [cmd EXCEPT !.prompt_action = Some(<<"s", "e", "t">>), !.prompt_value = tv.value])
      ELSE Outcome(i + consumed,
             AddError(cmd, Error("--prompt", "set requires prompt text", <<>>)))

chat_prompt(tokens, i, cmd) ==
  LET cv == _consume_value(tokens, i + 1)
  IN  IF Truthy(cv.value)
      THEN LET prompt_arg == cv.value[1]
           IN  IF prompt_arg \in {<<"l", "i", "s", "t">>, <<"s", "h", "o", "w">>}
               THEN Outcome(i + cv.consumed, [cmd EXCEPT !.prompt_action = Some(prompt_arg)])
               ELSE IF prompt_arg = <<"s", "e", "t">>
               THEN chat_prompt_set(tokens, i, cmd, cv.consumed)
               ELSE IF isdigit(prompt_arg)
               THEN Outcome(i + cv.consumed, [cmd EXCEPT !.prompt_action = Some(prompt_arg)])
               ELSE Outcome(i + cv.consumed,
                      AddError(cmd, Error("", "Invalid prompt action:", prompt_arg)))
      ELSE Outcome(i + 1,
             AddError(cmd, Error("--prompt", "requires an action (list/show/set/0-3)", <<>>)))

chat_send(tokens, i, cmd) ==
  LET cv == _consume_value(tokens, i + 1)
  IN  IF Truthy(cv.value)
      THEN Outcome(i + cv.consumed, [cmd EXCEPT !.message = cv.value])
      ELSE Outcome(i + 1, AddError(cmd, Error("--send", "requires a message", <<>>)))

chat_listen(tokens, i, cmd) ==
  LET cv == _consume_value(tokens, i + 1)
  IN  IF Truthy(cv.value) /\ lower(cv.value[1]) \in {<<"o", "n">>, <<"o", "f", "f">>}
      THEN Outcome(i + cv.consumed, [cmd EXCEPT !.listen_mode = Some(lower(cv.value[1]))])
      ELSE Outcome(i + 1, AddError(cmd, Error("--listen", "requires 'on' or 'off'", <<>>)))

\* An else branch that reports the token and ends the loop there.
unknown_flag_ends_loop(tokens, i, cmd) ==
  Outcome(Len(tokens), AddError(cmd, Error("", "Unknown flag:", tokens[i + 1])))

\* The else branch of every grammar's dispatch.
unknown_flag(tokens, i, cmd) ==
  Outcome(i + 1, AddError(cmd, Error("", "Unknown flag:", tokens[i + 1])))

\* One iteration of the token loop of parse_chat_command.
parse_chat_step(tokens, i, cmd) ==
  LET token == tokens[i + 1]
  IN  IF token \in ChatLlmFlags THEN chat_llm(tokens, i, cmd)
      ELSE IF token \in ChatModelFlags THEN chat_model(tokens, i, cmd)
      ELSE IF token \in ChatPromptFlags THEN chat_prompt(tokens, i, cmd)
      ELSE IF token \in ChatSendFlags THEN chat_send(tokens, i, cmd)
      ELSE IF token \in ChatModelsFlags
      THEN Outcome(i + 1, [cmd EXCEPT !.show_models = TRUE])
      ELSE IF token \in ChatStatusFlags
      THEN Outcome(i + 1, [cmd EXCEPT !.show_status = TRUE])
      ELSE IF token \in ChatClearFlags
      THEN Outcome(i + 1, [cmd EXCEPT !.clear_history = TRUE])
      ELSE IF token \in ChatListenFlags THEN chat_listen(tokens, i, cmd)
      ELSE unknown_flag(tokens, i, cmd)

\* A parser that returns what the loop left, with no default action.
parse_chat_exit_no_default(cmd) == cmd

\* After the loop: if no explicit action, show status.
parse_chat_exit(cmd) ==
  IF ~chat_has_action(cmd) THEN [cmd EXCEPT !.show_status = TRUE] ELSE cmd

\* ------------------------------------------------------------------------
\* Music command
\* ------------------------------------------------------------------------

MusicCommand ==
  [action |-> None, youtube_urls |-> <<>>, queue_only |-> FALSE, errors |-> <<>>]

\* action_map.get(word, word) of the legacy form
music_action_map(word) ==
  IF word = <<"i", "n", "i", "t", "i", "a", "l", "i", "z", "e">> THEN <<"i", "n", "i", "t">>
  ELSE IF word = <<"p", "r", "e", "v", "i", "o", "u", "s">> THEN <<"p", "r", "e", "v">>
  ELSE word

MusicYoutubeFlags == {<<"-", "-", "y", "o", "u", "t", "u", "b", "e">>, <<"-", "y">>}

MusicQueueFlags == {<<"-", "-", "q", "u", "e", "u", "e">>, <<"-", "-", "a", "d", "d", "-", "n", "e", "x", "t">>}

\* The flags of the music grammar that only set the action.
music_action_of(token) ==
  IF token \in {<<"-", "-", "i", "n", "i", "t">>, <<"-", "-", "i", "n", "i", "t", "i", "a", "l", "i", "z", "e">>, <<"-", "i">>} THEN Some(<<"i", "n", "i", "t">>)
  ELSE IF token \in {<<"-", "-", "p", "l", "a", "y">>, <<"-", "p">>} THEN Some(<<"p", "l", "a", "y">>)
  ELSE IF token = <<"-", "-", "p", "a", "u", "s", "e">> THEN Some(<<"p", "a", "u", "s", "e">>)
  ELSE IF token \in {<<"-", "-", "s", "t", "o", "p">>, <<"-", "s">>} THEN Some(<<"s", "t", "o", "p">>)
  ELSE IF token \in {<<"-", "-", "n", "e", "x", "t">>, <<"-", "n">>} THEN Some(<<"n", "e", "x", "t">>)
  ELSE IF token \in {<<"-", "-", "p", "r", "e", "v">>, <<"-", "-", "p", "r", "e", "v", "i", "o", "u", "s">>} THEN Some(<<"p", "r", "e", "v">>)
  ELSE IF token = <<"-", "-", "n", "a", "m", "e">> THEN Some(<<"n", "a", "m", "e">>)
  ELSE None

parse_music_entry(command_text) ==
  LET text == strip_prefix(command_text, <<"$", "m", "u", "s", "i", "c">>)
  IN  IF text # <<>> /\ ~startswith(text, <<"-">>)
      THEN Returned([MusicCommand EXCEPT !.action = Some(music_action_map(split(text)[1]))])
      ELSE IF text = <<>>
      THEN Returned(AddError(MusicCommand, Error("", "No action specified", <<>>)))
      ELSE Entered(MusicCommand, _tokenize(text))

\* --youtube: the inner loop takes every following token up to the next
\* flag-like one; the error is raised when the list is empty afterwards.
music_youtube(tokens, i, cmd) ==
  LET stop == consume_stop(tokens, i + 1)
      urls == cmd.youtube_urls \o SubSeq(tokens, i + 2, stop)
      c    == [cmd EXCEPT !.action = Some(<<"y", "o", "u", "t", "u", "b", "e">>), !.youtube_urls = urls]
  IN  IF urls = <<>>
      THEN Outcome(stop, AddError(c, Error("--youtube", "requires at least one URL", <<>>)))
      ELSE Outcome(stop, c)

\* One iteration of the token loop of parse_music_command.
parse_music_step(tokens, i, cmd) ==
  LET token == tokens[i + 1]
  IN  IF music_action_of(token) # None
      THEN Outcome(i + 1, [cmd EXCEPT !.action = music_action_of(token)])
      ELSE IF token \in MusicYoutubeFlags THEN music_youtube(tokens, i, cmd)
      ELSE IF token \in MusicQueueFlags
      THEN Outcome(i + 1, [cmd EXCEPT !.queue_only = TRUE])
      ELSE unknown_flag(tokens, i, cmd)

\* ------------------------------------------------------------------------
\* Search commands
\* ------------------------------------------------------------------------

SearchCommand == [query |-> None, errors |-> <<>>]

WolframQueryFlags == {<<"-", "-", "q", "u", "e", "r", "y">>, <<"-", "q">>}

GoogleSearchFlags == {<<"-", "-", "s", "e", "a", "r", "c", "h">>, <<"-", "s">>, <<"-", "-", "q", "u", "e", "r", "y">>, <<"-", "q">>}

\* An entry without the legacy branch: every non-empty text is tokenized.
search_entry_no_legacy(command_text, prefix) ==
  LET text == strip_prefix(command_text, prefix)
  IN  IF text = <<>>
      THEN Returned(AddError(SearchCommand, Error("", "No query provided", <<>>)))
      ELSE Entered(SearchCommand, _tokenize(text))

\* The code both search grammars run before their token loop.
search_entry(command_text, prefix) ==
  LET text == strip_prefix(command_text, prefix)
  IN  IF text = <<>>
      THEN Returned(AddError(SearchCommand, Error("", "No query provided", <<>>)))
      ELSE IF ~startswith(text, <<"-">>)
      THEN Returned([SearchCommand EXCEPT !.query = Some(text)])
      ELSE Entered(SearchCommand, _tokenize(text))

parse_wolfram_entry(command_text) == search_entry(command_text, <<"$", "w", "o", "l", "f", "r", "a", "m">>)

parse_google_entry(command_text) == search_entry(command_text, <<"$", "g", "o", "o", "g", "l", "e">>)

\* One iteration of the token loop of parse_wolfram_command.
parse_wolfram_step(tokens, i, cmd) ==
  LET token == tokens[i + 1]
      cv    == _consume_value(tokens, i + 1)
  IN  IF token \in WolframQueryFlags
      THEN IF Truthy(cv.value)
           THEN Outcome(i + cv.consumed, [cmd EXCEPT !.query = cv.value])
           ELSE Outcome(i + 1, AddError(cmd, Error("--query", "requires a search term", <<>>)))
      ELSE unknown_flag(tokens, i, cmd)

\* One iteration of the token loop of parse_google_command.
parse_google_step(tokens, i, cmd) ==
  LET token == tokens[i + 1]
      cv    == _consume_value(tokens, i + 1)
  IN  IF token \in GoogleSearchFlags
      THEN IF Truthy(cv.value)
           THEN Outcome(i + cv.consumed, [cmd EXCEPT !.query = cv.value])
           ELSE Outcome(i + 1, AddError(cmd, Error("--search", "requires a query", <<>>)))
      ELSE unknown_flag(tokens, i, cmd)

\* ------------------------------------------------------------------------
\* Database commands
\* ------------------------------------------------------------------------

DbCommand == [action |-> None, errors |-> <<>>]

db_action_of(token) ==
  IF token \in {<<"-", "-", "s", "t", "a", "t", "s">>, <<"-", "s">>} THEN Some(<<"s", "t", "a", "t", "s">>)
  ELSE IF token \in {<<"-", "-", "e", "x", "p", "o", "r", "t">>, <<"-", "e">>} THEN Some(<<"e", "x", "p", "o", "r", "t">>)
  ELSE IF token \in {<<"-", "-", "i", "m", "p", "o", "r", "t">>, <<"-", "i">>} THEN Some(<<"i", "m", "p", "o", "r", "t">>)
  ELSE None

\* The whole-line legacy commands of the db grammar.
db_legacy_action(text) ==
  IF text = <<"$", "d", "b", "S", "t", "a", "t", "s">> THEN Some(<<"s", "t", "a", "t", "s">>)
  ELSE IF text = <<"$", "d", "b", "E", "x", "p", "o", "r", "t">> THEN Some(<<"e", "x", "p", "o", "r", "t">>)
  ELSE IF text = <<"$", "d", "b", "I", "m", "p", "o", "r", "t">> THEN Some(<<"i", "m", "p", "o", "r", "t">>)
  ELSE None

parse_db_entry(command_text) ==
  LET text == strip(command_text)
      rest == IF startswith(text, <<"$", "d", "b">>) THEN strip(DropFirst(text, 3)) ELSE text
  IN  IF db_legacy_action(text) # None
      THEN Returned([DbCommand EXCEPT !.action = db_legacy_action(text)])
      ELSE IF rest = <<>>
      THEN Returned(AddError(DbCommand, Error("", "No action specified", <<>>)))
      ELSE Entered(DbCommand, _tokenize(rest))

\* One iteration of the for loop of parse_db_command.
parse_db_step(tokens, i, cmd) ==
  LET token == tokens[i + 1]
  IN  IF db_action_of(token) # None
      THEN Outcome(i + 1, [cmd EXCEPT !.action = db_action_of(token)])
      ELSE unknown_flag(tokens, i, cmd)

\* ------------------------------------------------------------------------
\* Reminder command
\* ------------------------------------------------------------------------

DefaultMinutes == 5

ReminderCommand == [minutes |-> DefaultMinutes, message |-> None, errors |-> <<>>]

ReminderTimeFlags == {<<"-", "-", "t", "i", "m", "e">>, <<"-", "t">>}

ReminderMessageFlags == {<<"-", "-", "m", "e", "s", "s", "a", "g", "e">>, <<"-", "m">>}

\* Legacy form: $remindMeIn 5 message here
reminder_legacy(text) ==
  LET parts == split_once(text)
  IN  IF float_ok(parts[1])
      THEN [ReminderCommand EXCEPT
              !.minutes = float_value(parts[1]),
              !.message = IF Len(parts) > 1 THEN Some(parts[2]) ELSE None]
      ELSE AddError(ReminderCommand, Error("", "Invalid time format", <<>>))

parse_reminder_entry(command_text) ==
  LET text == strip_prefix(command_text, <<"$", "r", "e", "m", "i", "n", "d", "M", "e", "I", "n">>)
  IN  IF text = <<>> THEN Returned(ReminderCommand)
      ELSE IF ~startswith(text, <<"-">>) THEN Returned(reminder_legacy(text))
      ELSE Entered(ReminderCommand, _tokenize(text))

\* --time: float(value.split()[0]); a ValueError is caught, the IndexError
\* of an empty split() is not.
reminder_time(tokens, i, cmd) ==
  LET cv == _consume_value(tokens, i + 1)
  IN  IF Truthy(cv.value)
      THEN LET words == split(cv.value[1])
           IN  IF words = <<>> THEN Raised(i, cmd, "IndexError")
               ELSE IF float_ok(words[1])
               THEN Outcome(i + cv.consumed, [cmd EXCEPT !.minutes = float_value(words[1])])
               ELSE Outcome(i + cv.consumed,
                      AddError(cmd, Error("--time", "requires a number", <<>>)))
      ELSE Outcome(i + 1, AddError(cmd, Error("--time", "requires a value", <<>>)))

reminder_message(tokens, i, cmd) ==
  LET cv == _consume_value(tokens, i + 1)
  IN  IF Truthy(cv.value)
      THEN Outcome(i + cv.consumed, [cmd EXCEPT !.message = cv.value])
      ELSE Outcome(i + 1, AddError(cmd, Error("--message", "requires text", <<>>)))

\* One iteration of the token loop of parse_reminder_command.
parse_reminder_step(tokens, i, cmd) ==
  LET token == tokens[i + 1]
  IN  IF token \in ReminderTimeFlags THEN reminder_time(tokens, i, cmd)
      ELSE IF token \in ReminderMessageFlags THEN reminder_message(tokens, i, cmd)
      ELSE unknown_flag(tokens, i, cmd)

\* ------------------------------------------------------------------------
\* Clip commands
\* ------------------------------------------------------------------------

ClipCommand ==
  [urls |-> <<>>, starts |-> <<>>, ends |-> <<>>, resolution |-> None,
   fps |-> None, bitrate |-> None, output_format |-> None, force |-> FALSE,
   confirm |-> FALSE, cancel |-> FALSE, clip_index |-> None,
   skip_indices |-> <<>>, errors |-> <<>>]

ClipUrlFlags == {<<"-", "-", "u", "r", "l">>, <<"-", "u">>}

ClipStartFlags == {<<"-", "-", "s", "t", "a", "r", "t">>, <<"-", "s">>}

ClipEndFlags == {<<"-", "-", "e", "n", "d">>, <<"-", "e">>}

ClipResolutionFlags == {<<"-", "-", "r", "e", "s", "o", "l", "u", "t", "i", "o", "n">>, <<"-", "r">>}

ClipFpsFlags == {<<"-", "-", "f", "p", "s">>}

ClipBitrateFlags == {<<"-", "-", "b", "i", "t", "r", "a", "t", "e">>, <<"-", "b">>}

ClipFormatFlags == {<<"-", "-", "f", "o", "r", "m", "a", "t">>, <<"-", "f">>}

ClipClipFlags == {<<"-", "-", "c", "l", "i", "p">>}

ClipSkipFlags == {<<"-", "-", "s", "k", "i", "p">>}

\* An entry without the empty-text check.
parse_clip_entry_no_empty_check(command_text) ==
  Entered(ClipCommand, _tokenize(strip_prefix(command_text, <<"$", "c", "l", "i", "p">>)))

parse_clip_entry(command_text) ==
  LET text == strip_prefix(command_text, <<"$", "c", "l", "i", "p">>)
  IN  IF text = <<>>
      THEN Returned(AddError(ClipCommand, Error("", "No parameters provided", <<>>)))
      ELSE Entered(ClipCommand, _tokenize(text))

\* A clip flag whose value is the next token as it stands: set(cmd, value)
\* when a token follows, the missing-value error otherwise.
clip_next_token(tokens, i, cmd, set, flag, text) ==
  IF i + 1 < Len(tokens)
  THEN Outcome(i + 2, set)
  ELSE Outcome(i + 1, AddError(cmd, Error(flag, text, <<>>)))

\* A clip flag whose value is int(tokens[i + 1]): on ValueError the error is
\* appended and the index moves by one.
clip_int_token(tokens, i, cmd, set, flag, missing) ==
  IF i + 1 < Len(tokens)
  THEN IF int_ok(tokens[i + 2])
       THEN Outcome(i + 2, set)
       ELSE Outcome(i + 1, AddError(cmd, Error(flag, "requires a number", <<>>)))
  ELSE Outcome(i + 1, AddError(cmd, Error(flag, missing, <<>>)))

\* The flag token itself, where the code reads tokens[i + 1].
next_token_is_flag(tokens, i) == tokens[i + 1]

\* The token after the flag, when there is one.
next_token(tokens, i) == IF i + 1 < Len(tokens) THEN tokens[i + 2] ELSE <<>>

next_int(tokens, i) ==
  IF i + 1 < Len(tokens) /\ int_ok(tokens[i + 2]) THEN int_value(tokens[i + 2]) ELSE 0

\* One iteration of the token loop of parse_clip_command.
parse_clip_step(tokens, i, cmd) ==
  LET token == tokens[i + 1]
      nxt   == next_token(tokens, i)
  IN  IF token \in ClipUrlFlags
      THEN clip_next_token(tokens, i, cmd, [cmd EXCEPT !.urls = Append(@, nxt)],
                           "--url", "requires a URL")
      ELSE IF token \in ClipStartFlags
      THEN clip_next_token(tokens, i, cmd, [cmd EXCEPT !.starts = Append(@, nxt)],
                           "--start", "requires a time value")
      ELSE IF token \in ClipEndFlags
      THEN clip_next_token(tokens, i, cmd, [cmd EXCEPT !.ends = Append(@, nxt)],
                           "--end", "requires a time value")
      ELSE IF token \in ClipResolutionFlags
      THEN clip_next_token(tokens, i, cmd, [cmd EXCEPT !.resolution = Some(nxt)],
                           "--resolution", "requires a value")
      ELSE IF token \in ClipFpsFlags
      THEN clip_int_token(tokens, i, cmd, [cmd EXCEPT !.fps = Some(next_int(tokens, i))],
                          "--fps", "requires a value")
      ELSE IF token \in ClipBitrateFlags
      THEN clip_next_token(tokens, i, cmd, [cmd EXCEPT !.bitrate = Some(nxt)],
                           "--bitrate", "requires a value")
      ELSE IF token \in ClipFormatFlags
      THEN clip_next_token(tokens, i, cmd, [cmd EXCEPT !.output_format = Some(nxt)],
                           "--format", "requires a value")
      ELSE IF token = <<"-", "-", "f", "o", "r", "c", "e">> THEN Outcome(i + 1, [cmd EXCEPT !.force = TRUE])
      ELSE IF token = <<"-", "-", "c", "o", "n", "f", "i", "r", "m">> THEN Outcome(i + 1, [cmd EXCEPT !.confirm = TRUE])
      ELSE IF token = <<"-", "-", "c", "a", "n", "c", "e", "l">> THEN Outcome(i + 1, [cmd EXCEPT !.cancel = TRUE])
      ELSE IF token \in ClipClipFlags
      THEN clip_int_token(tokens, i, cmd,
                          [cmd EXCEPT !.clip_index = Some(next_int(tokens, i) - 1)],
                          "--clip", "requires an index")
      ELSE IF token \in ClipSkipFlags
      THEN clip_int_token(tokens, i, cmd,
                          [cmd EXCEPT !.skip_indices = Append(@, next_int(tokens, i) - 1)],
                          "--skip", "requires an index")
      ELSE unknown_flag(tokens, i, cmd)
\* ------------------------------------------------------------------------
\* The state the message handler works on (main.py, clipQuery.py,
\* unifiedChat.py, database.py)
\* ------------------------------------------------------------------------

\* The text channels messages arrive on.
Channels == {"c1", "c2"}

\* How many messages are handled in one behaviour; each has its own
\* on_message coroutine.
MaxHandlers == 2

Handlers == 1..MaxHandlers

\* clipQuery.ClipSpec: the fields the handler sets and reads.  The times,
\* the title, the site and the estimated size come from the video service
\* and are left out.
ClipSpec(url, resolution, fps, bitrate, output_format) ==
  [url |-> url, resolution |-> resolution, fps |-> fps, bitrate |-> bitrate,
   output_format |-> output_format]

\* quality_opts[0] of the create path: the best option that fits.
BestOption == [resolution |-> <<"7", "2", "0", "p">>, fps |-> 30, bitrate |-> <<"1", "5", "0", "0", "k">>]

\* A clip as an earlier preview stored it.
StoredClip(url) ==
  ClipSpec(url, BestOption.resolution, BestOption.fps, BestOption.bitrate, <<"m", "p", "4">>)

\* The ClipSpec objects that exist when the behaviour starts, and the lists
\* earlier previews may have left pending on each channel.
InitialHeap == <<StoredClip(<<"a">>), StoredClip(<<"b">>), StoredClip(<<"c">>)>>

InitialPending(c) == IF c = "c1" THEN {<<>>, <<1, 2>>} ELSE {<<3>>}

\* unifiedChat.AVAILABLE_LLMS: the back ends and, for each, its models, the
\* first of them being the default.
AvailableLLMs == {<<"c", "h", "a", "t", "g", "p", "t">>, <<"g", "e", "m", "i", "n", "i">>, <<"d", "e", "e", "p", "s", "e", "e", "k">>}

ModelsOf(llm) == <<llm \o <<"-", "1">>, llm \o <<"-", "2">>>>

\* database.get_channel_settings for a channel without a row.
DefaultSettings ==
  [llm |-> <<"c", "h", "a", "t", "g", "p", "t">>, model |-> <<"g", "p", "t", "-", "3", ".", "5", "-", "t", "u", "r", "b", "o">>, listen_mode |-> FALSE]

\* The chat history of one channel and back end: which system prompt heads
\* it and how many exchanges follow.
EmptyHistory == [prompt |-> "default", turns |-> 0]

\* The music player before $music initialize: voice_chat ("None",
\* "connected" or "disconnected"), whether it plays, song_index, the runtime
\* playlist (the lines of musicList.txt, the first being the saved index)
\* and the channels with a saved music state in the database.
MusicStopped ==
  [voice_chat |-> "None", playing |-> FALSE, song_index |-> 1,
   runtime_playlist |-> <<<<"1">>, <<"s", "o", "n", "g">>>>, saved |-> {}]

\* The locals of an on_message coroutine that is not running.
IdleFrame ==
  [pc |-> "idle", channel |-> "c1", grammar |-> "none", text |-> <<>>,
   cmd |-> <<>>, clips |-> <<>>, k |-> 0]


\* ------------------------------------------------------------------------
\* The seven grammars, by name
\* ------------------------------------------------------------------------

Grammars == {"chat", "music", "wolfram", "google", "db", "reminder", "clip"}

\* The code of parse_<g>_command before its token loop.
parse_entry(g, command_text) ==
  CASE g = "chat"     -> parse_chat_entry(command_text)
    [] g = "music"    -> parse_music_entry(command_text)
    [] g = "wolfram"  -> parse_wolfram_entry(command_text)
    [] g = "google"   -> parse_google_entry(command_text)
    [] g = "db"       -> parse_db_entry(command_text)
    [] g = "reminder" -> parse_reminder_entry(command_text)
    [] g = "clip"     -> parse_clip_entry(command_text)

\* One iteration of the token loop of parse_<g>_command.
parse_step(g, tokens, i, cmd) ==
  CASE g = "chat"     -> parse_chat_step(tokens, i, cmd)
    [] g = "music"    -> parse_music_step(tokens, i, cmd)
    [] g = "wolfram"  -> parse_wolfram_step(tokens, i, cmd)
    [] g = "google"   -> parse_google_step(tokens, i, cmd)
    [] g = "db"       -> parse_db_step(tokens, i, cmd)
    [] g = "reminder" -> parse_reminder_step(tokens, i, cmd)
    [] g = "clip"     -> parse_clip_step(tokens, i, cmd)

\* The code of parse_<g>_command after its token loop.
parse_exit(g, cmd) == IF g = "chat" THEN parse_chat_exit(cmd) ELSE cmd

\* ------------------------------------------------------------------------
\* Input lines
\* ------------------------------------------------------------------------

\* The longest generated line, in words.
MaxWords == 3

Prefix(g) ==
  CASE g = "chat"     -> <<"$", "c", "h", "a", "t">>
    [] g = "music"    -> <<"$", "m", "u", "s", "i", "c">>
    [] g = "wolfram"  -> <<"$", "w", "o", "l", "f", "r", "a", "m">>
    [] g = "google"   -> <<"$", "g", "o", "o", "g", "l", "e">>
    [] g = "db"       -> <<"$", "d", "b">>
    [] g = "reminder" -> <<"$", "r", "e", "m", "i", "n", "d", "M", "e", "I", "n">>
    [] g = "clip"     -> <<"$", "c", "l", "i", "p">>

\* The words the generated lines of each grammar are made of: flags in long
\* and short form, bare values, numbers, quoted values (empty, blank, with
\* a space) and an unknown flag.
Vocabulary(g) ==
  CASE g = "chat" ->
         {<<"-", "l">>, <<"-", "-", "m", "o", "d", "e", "l">>, <<"-", "p">>, <<"-", "-", "s", "e", "n", "d">>, <<"-", "-", "c", "l", "e", "a", "r">>, <<"-", "-", "l", "i", "s", "t", "e", "n">>,
          <<"s", "e", "t">>, <<"2">>, <<"O", "n">>, <<"\"", "\"">>, <<"-", "-", "b", "o", "g", "u", "s">>}
    [] g = "music" ->
         {<<"-", "y">>, <<"-", "-", "q", "u", "e", "u", "e">>, <<"-", "p">>, <<"i", "n", "i", "t", "i", "a", "l", "i", "z", "e">>, <<"u", "1">>, <<"\"", "u", " ", "2", "\"">>, <<"-", "-", "b", "o", "g", "u", "s">>}
    [] g = "wolfram" ->
         {<<"-", "q">>, <<"-", "-", "q", "u", "e", "r", "y">>, <<"p", "i">>, <<"\"", "\"">>, <<"-", "-", "b", "o", "g", "u", "s">>}
    [] g = "google" ->
         {<<"-", "s">>, <<"-", "-", "q", "u", "e", "r", "y">>, <<"p", "i">>, <<"\"", "\"">>, <<"-", "-", "b", "o", "g", "u", "s">>}
    [] g = "db" ->
         {<<"-", "s">>, <<"-", "-", "e", "x", "p", "o", "r", "t">>, <<"-", "i">>, <<"s", "t", "a", "t", "s">>, <<"-", "-", "b", "o", "g", "u", "s">>}
    [] g = "reminder" ->
         {<<"-", "t">>, <<"-", "-", "m", "e", "s", "s", "a", "g", "e">>, <<"1", "0">>, <<"-", "5">>, <<"t", "e", "a">>, <<"\"", " ", "\"">>, <<"\"", "\"">>, <<"-", "-", "b", "o", "g", "u", "s">>}
    [] g = "clip" ->
         {<<"-", "u">>, <<"-", "s">>, <<"-", "-", "f", "p", "s">>, <<"-", "-", "c", "l", "i", "p">>, <<"-", "-", "s", "k", "i", "p">>, <<"-", "-", "f", "o", "r", "m", "a", "t">>,
          <<"-", "-", "f", "o", "r", "c", "e">>, <<"a">>, <<"5">>, <<"-", "-", "b", "o", "g", "u", "s">>}

\* Every alias of every flag of grammar g that takes a value.
ValueFlags(g) ==
  CASE g = "chat" ->
         ChatLlmFlags \cup ChatModelFlags \cup ChatPromptFlags \cup ChatSendFlags
           \cup ChatListenFlags
    [] g = "music"    -> MusicYoutubeFlags
    [] g = "wolfram"  -> WolframQueryFlags
    [] g = "google"   -> GoogleSearchFlags
    [] g = "db"       -> {}
    [] g = "reminder" -> ReminderTimeFlags \cup ReminderMessageFlags
    [] g = "clip" ->
         ClipUrlFlags \cup ClipStartFlags \cup ClipEndFlags \cup ClipResolutionFlags
           \cup ClipFpsFlags \cup ClipBitrateFlags \cup ClipFormatFlags
           \cup ClipClipFlags \cup ClipSkipFlags

WordSeqs(g) == UNION {[1..n -> Vocabulary(g)] : n \in 0..MaxWords}

\* The prefix followed by the words, separated by single spaces.
LineOf(g, words) ==
  IF words = <<>> THEN Prefix(g) ELSE Prefix(g) \o <<" ">> \o join(words)

\* Lines every grammar is tried on: blank lines, the bare prefix, and each
\* value-taking flag alone, before a flag, before an unknown flag and
\* before two bare words.
CommonLines(g) ==
  {<<>>, <<" ">>, <<" ", " ", " ">>, Prefix(g) \o <<" ", " ">>, <<" ">> \o Prefix(g)}
    \cup {LineOf(g, <<f>>) : f \in ValueFlags(g)}
    \cup {LineOf(g, <<f, <<"-", "-", "b", "o", "g", "u", "s">>, f>>) : f \in ValueFlags(g)}
    \cup {LineOf(g, <<f, <<"x">>, <<"y">>, <<"-", "-", "b", "o", "g", "u", "s">>>>) : f \in ValueFlags(g)}
    \cup {LineOf(g, <<f, <<"a", "b", "c">>, f, <<"7">>>>) : f \in ValueFlags(g)}

\* The lines of the documented examples, and for chat two lines whose quoted
\* value begins with a hyphen.
ExampleLines(g) ==
  CASE g = "chat" ->
         {<<"$", "c", "h", "a", "t", " ", "-", "l", " ", "C", "H", "A", "T", "G", "P", "T", " ", "-", "m", " ", "g", "p", "t", "-", "4", " ", "-", "p", " ", "2", " ", "-", "s", " ", "T", "e", "s", "t", " ", "m", "e", "s", "s", "a", "g", "e">>,
          <<"-", "l", " ", "C", "H", "A", "T", "G", "P", "T", " ", "-", "m", " ", "g", "p", "t", "-", "4", " ", "-", "p", " ", "2", " ", "-", "s", " ", "T", "e", "s", "t", " ", "m", "e", "s", "s", "a", "g", "e">>,
          <<"$", "c", "h", "a", "t", " ", "-", "-", "p", "r", "o", "m", "p", "t", " ", "s", "e", "t", " ", "b", "e", " ", "b", "r", "i", "e", "f", " ", "-", "-", "c", "l", "e", "a", "r">>,
          <<"$", "c", "h", "a", "t", " ", "-", "p", " ", "s", "e", "t", " ", "\"", "b", "e", " ", "b", "r", "i", "e", "f", "\"", " ", "-", "-", "m", "o", "d", "e", "l", "s", " ", "-", "s", "t">>,
          <<"$", "c", "h", "a", "t", " ", "-", "p", " ", "s", "h", "o", "w", " ", "-", "-", "l", "i", "s", "t", "e", "n", " ", "O", "F", "F", " ", "-", "c">>,
          <<"$", "c", "h", "a", "t", " ", "h", "e", "l", "l", "o", " ", "t", "h", "e", "r", "e">>,
          <<"$", "c", "h", "a", "t", " ", "-", "-", "s", "e", "n", "d", " ", "\"", "-", "h", "e", "l", "l", "o", " ", "t", "h", "e", "r", "e", "\"">>,
          <<"$", "c", "h", "a", "t", " ", "-", "-", "s", "e", "n", "d", " ", "\"", "-", "5", " ", "a", "p", "p", "l", "e", "s", "\"">>}
    [] g = "music" ->
         {<<"$", "m", "u", "s", "i", "c", " ", "i", "n", "i", "t", "i", "a", "l", "i", "z", "e">>, <<"$", "m", "u", "s", "i", "c", " ", "p", "r", "e", "v", "i", "o", "u", "s">>, <<"$", "m", "u", "s", "i", "c", " ", "p", "l", "a", "y", "T", "e", "s", "t", " ", "n", "o", "w">>,
          <<"$", "m", "u", "s", "i", "c", " ", "-", "-", "i", "n", "i", "t", " ", "-", "-", "p", "a", "u", "s", "e", " ", "-", "-", "s", "t", "o", "p", " ", "-", "-", "n", "e", "x", "t", " ", "-", "n", " ", "-", "-", "p", "r", "e", "v", " ", "-", "-", "n", "a", "m", "e", " ", "-", "-", "a", "d", "d", "-", "n", "e", "x", "t">>,
          <<"$", "m", "u", "s", "i", "c", " ", "-", "y", " ", "\"", "u", "1", "\"", " ", "\"", "u", "2", "\"", " ", "\"", "u", "3", "\"">>, <<"$", "m", "u", "s", "i", "c", " ", "-", "y", " ", "-", "-", "q", "u", "e", "u", "e", " ", "\"", "u", "1", "\"", " ", "\"", "u", "2", "\"">>,
          <<"$", "m", "u", "s", "i", "c", " ", "-", "y", " ", "-", "-", "q", "u", "e", "u", "e", " ", "u", "r", "l", "1", " ", "u", "r", "l", "2", " ", "u", "r", "l", "3">>, <<"$", "m", "u", "s", "i", "c", " ", "-", "y", " ", "u", "r", "l", "1", " ", "u", "r", "l", "2", " ", "u", "r", "l", "3">>}
    [] g = "wolfram" ->
         {<<"$", "w", "o", "l", "f", "r", "a", "m", " ", "i", "n", "t", "e", "g", "r", "a", "t", "e", " ", "x", "^", "2">>, <<"$", "w", "o", "l", "f", "r", "a", "m", " ", "-", "q", " ", "\"", "w", "h", "a", "t", " ", "i", "s", " ", "p", "i", "\"">>}
    [] g = "google" ->
         {<<"$", "g", "o", "o", "g", "l", "e", " ", "p", "y", "t", "h", "o", "n", " ", "t", "u", "t", "o", "r", "i", "a", "l">>, <<"$", "g", "o", "o", "g", "l", "e", " ", "-", "-", "s", "e", "a", "r", "c", "h", " ", "p", "y", "t", "h", "o", "n", " ", "t", "u", "t", "o", "r", "i", "a", "l">>}
    [] g = "db" ->
         {<<"$", "d", "b", "S", "t", "a", "t", "s">>, <<"$", "d", "b", "E", "x", "p", "o", "r", "t">>, <<"$", "d", "b", "I", "m", "p", "o", "r", "t">>, <<"$", "d", "b", " ", "-", "-", "s", "t", "a", "t", "s", " ", "-", "e", " ", "-", "-", "i", "m", "p", "o", "r", "t">>,
          <<"$", "d", "b", " ", "s", "t", "a", "t", "s">>}
    [] g = "reminder" ->
         {<<"$", "r", "e", "m", "i", "n", "d", "M", "e", "I", "n", " ", "1", "0", " ", "T", "a", "k", "e", " ", "a", " ", "b", "r", "e", "a", "k">>, <<"$", "r", "e", "m", "i", "n", "d", "M", "e", "I", "n", " ", "s", "o", "o", "n">>, <<"$", "r", "e", "m", "i", "n", "d", "M", "e", "I", "n", " ", "7">>,
          <<"$", "r", "e", "m", "i", "n", "d", "M", "e", "I", "n", " ", "-", "-", "t", "i", "m", "e", " ", "1", "0", " ", "-", "-", "m", "e", "s", "s", "a", "g", "e", " ", "T", "a", "k", "e", " ", "a", " ", "b", "r", "e", "a", "k">>,
          <<"$", "r", "e", "m", "i", "n", "d", "M", "e", "I", "n", " ", "-", "-", "t", "i", "m", "e", " ", "-", "5", " ", "-", "-", "m", "e", "s", "s", "a", "g", "e", " ", "x">>}
    [] g = "clip" ->
         {<<"$", "c", "l", "i", "p", " ", "-", "u", " ", "\"", "h", "t", "t", "p", "s", ":", "/", "/", "x", "/", "a", "\"", " ", "-", "s", " ", "5", " ", "-", "e", " ", "1", "5", " ", "-", "u", " ", "\"", "h", "t", "t", "p", "s", ":", "/", "/", "x", "/", "b", "\"", " ", "-", "s", " ", "2", "0", " ", "-", "e", " ", "3", "0">>,
          <<"$", "c", "l", "i", "p", " ", "-", "-", "r", "e", "s", "o", "l", "u", "t", "i", "o", "n", " ", "7", "2", "0", "p", " ", "-", "-", "c", "l", "i", "p", " ", "2">>, <<"$", "c", "l", "i", "p", " ", "-", "-", "c", "o", "n", "f", "i", "r", "m", " ", "-", "-", "s", "k", "i", "p", " ", "2">>,
          <<"$", "c", "l", "i", "p", " ", "-", "u", " ", "\"", "u", "r", "l", "\"", " ", "-", "s", " ", "1", ":", "0", "5", " ", "-", "e", " ", "1", ":", "1", "5", " ", "-", "-", "f", "o", "r", "m", "a", "t", " ", "g", "i", "f", " ", "-", "b", " ", "1", "5", "0", "0", "k", " ", "-", "-", "c", "a", "n", "c", "e", "l">>,
          <<"$", "c", "l", "i", "p", " ", "c", "l", "i", "p", "s", " ", "p", "l", "e", "a", "s", "e">>}

Lines(g) == {LineOf(g, ws) : ws \in WordSeqs(g)} \cup CommonLines(g) \cup ExampleLines(g)

\* ------------------------------------------------------------------------
\* One call of a parser, step by step
\* ------------------------------------------------------------------------

VARIABLES
  grammar,       \* which parse_<g>_command is called
  command_text,  \* its argument
  pc,            \* "call", "loop", "done" (returned) or "raised"
  tokens,        \* the tokens of the line
  i,             \* the loop index
  cmd,           \* the command object
  exc            \* the exception that ended the call, "none" if none

\* One call of _tokenize, and one call of _consume_value, on their own.
VARIABLES
  tk_text,       \* the argument of _tokenize
  tk,            \* its locals: i, tokens, current_token, in_quotes, quote_char
  tk_pc,         \* "idle", "scan" (in the while loop) or "done" (returned)
  cv_tokens,     \* the tokens argument of _consume_value
  cv_start,      \* its start_idx argument
  cv             \* None before the call, Some(its result) after it

\* The message handler: the state it shares between messages and the
\* coroutines handling them.
VARIABLES
  pending_clips,     \* clipQuery.pending_clips: channel -> list of clips
  clip_heap,         \* the ClipSpec objects; a list holds their indices
  channel_settings,  \* the channel_settings table: llm, model, listen_mode
  chat_history,      \* the chat history of each channel and back end
  music_state,       \* the music player and its saved state
  handlers,          \* the locals of each on_message coroutine
  outbox             \* what each coroutine has sent to its channel

\* Calls of the parsers one after another, with the list objects their
\* command objects hold.
VARIABLES
  list_heap,         \* the list objects: the content of each
  calls              \* the calls made so far: line, returned object, copy

parser_vars == <<grammar, command_text, pc, tokens, i, cmd, exc>>

tokenizer_vars == <<tk_text, tk, tk_pc>>

consume_vars == <<cv_tokens, cv_start, cv>>

shared_vars == <<pending_clips, clip_heap, channel_settings, chat_history, music_state>>

handler_vars == <<shared_vars, handlers, outbox>>

calls_vars == <<list_heap, calls>>

vars == <<parser_vars, tokenizer_vars, consume_vars, handler_vars, calls_vars>>

\* No parser is being called.
ParserIdle ==
  /\ grammar = "none"
  /\ command_text = <<>>
  /\ pc = "idle"
  /\ tokens = <<>>
  /\ i = 0
  /\ cmd = <<>>
  /\ exc = "none"

\* _tokenize is not being called on its own.
TokenizerIdle ==
  /\ tk_text = <<>>
  /\ tk = TokenizerStart
  /\ tk_pc = "idle"

\* _consume_value is not being called on its own.
ConsumeIdle ==
  /\ cv_tokens = <<>>
  /\ cv_start = 0
  /\ cv = None

\* No sequence of calls is being followed.
CallsIdle ==
  /\ list_heap = <<>>
  /\ calls = <<>>

\* No message is being handled.
HandlerIdle ==
  /\ pending_clips = [c \in Channels |-> <<>>]
  /\ clip_heap = <<>>
  /\ channel_settings = [c \in Channels |-> DefaultSettings]
  /\ chat_history = [c \in Channels |-> [l \in AvailableLLMs |-> EmptyHistory]]
  /\ music_state = MusicStopped
  /\ handlers = [h \in Handlers |-> IdleFrame]
  /\ outbox = [h \in Handlers |-> <<>>]

Init ==
  /\ grammar \in Grammars
  /\ command_text \in Lines(grammar)
  /\ pc = "call"
  /\ tokens = <<>>
  /\ i = 0
  /\ cmd = <<>>
  /\ exc = "none"
  /\ TokenizerIdle
  /\ ConsumeIdle
  /\ HandlerIdle
  /\ CallsIdle

\* The call runs up to the token loop, or returns before it.
Enter(g) ==
  /\ pc = "call" /\ grammar = g
  /\ LET e == parse_entry(g, command_text)
     IN  /\ cmd' = e.cmd
         /\ tokens' = e.tokens
         /\ pc' = IF e.returned THEN "done" ELSE "loop"
  /\ i' = 0
  /\ UNCHANGED <<grammar, command_text, exc>>
  /\ UNCHANGED <<tokenizer_vars, consume_vars, handler_vars, calls_vars>>

\* One iteration of the token loop.
Step(g) ==
  /\ pc = "loop" /\ grammar = g
  /\ i < Len(tokens)
  /\ LET o == parse_step(g, tokens, i, cmd)
     IN  /\ i' = o.i
         /\ cmd' = o.cmd
         /\ exc' = o.exc
         /\ pc' = IF o.exc = "none" THEN "loop" ELSE "raised"
  /\ UNCHANGED <<grammar, command_text, tokens>>
  /\ UNCHANGED <<tokenizer_vars, consume_vars, handler_vars, calls_vars>>

\* The loop has ended: the function returns its command object.
Return(g) ==
  /\ pc = "loop" /\ grammar = g
  /\ ~(i < Len(tokens))
  /\ cmd' = parse_exit(g, cmd)
  /\ pc' = "done"
  /\ UNCHANGED <<grammar, command_text, tokens, i, exc>>
  /\ UNCHANGED <<tokenizer_vars, consume_vars, handler_vars, calls_vars>>

ParseChatCommand == Enter("chat")

ParseChatLoop == Step("chat")

ParseChatReturn == Return("chat")

ParseMusicCommand == Enter("music")

ParseMusicLoop == Step("music")

ParseMusicReturn == Return("music")

ParseWolframCommand == Enter("wolfram")

ParseWolframLoop == Step("wolfram")

ParseWolframReturn == Return("wolfram")

ParseGoogleCommand == Enter("google")

ParseGoogleLoop == Step("google")

ParseGoogleReturn == Return("google")

ParseDbCommand == Enter("db")

ParseDbLoop == Step("db")

ParseDbReturn == Return("db")

ParseReminderCommand == Enter("reminder")

ParseReminderLoop == Step("reminder")

ParseReminderReturn == Return("reminder")

ParseClipCommand == Enter("clip")

ParseClipLoop == Step("clip")

ParseClipReturn == Return("clip")

Next ==
  \/ ParseChatCommand \/ ParseChatLoop \/ ParseChatReturn
  \/ ParseMusicCommand \/ ParseMusicLoop \/ ParseMusicReturn
  \/ ParseWolframCommand \/ ParseWolframLoop \/ ParseWolframReturn
  \/ ParseGoogleCommand \/ ParseGoogleLoop \/ ParseGoogleReturn
  \/ ParseDbCommand \/ ParseDbLoop \/ ParseDbReturn
  \/ ParseReminderCommand \/ ParseReminderLoop \/ ParseReminderReturn
  \/ ParseClipCommand \/ ParseClipLoop \/ ParseClipReturn

Spec == Init /\ [][Next]_vars

\* ------------------------------------------------------------------------
\* One call of _tokenize, step by step
\* ------------------------------------------------------------------------

\* The longest generated text, in characters.
MaxText == 5

\* The characters of the generated texts: a letter, the separator, both
\* quote characters and the backslash.
TokChars == {"a", " ", "\"", "'", "\\"}

\* The documented texts, and two texts in which a quoted region touches
\* another region or a bare word.
TokExamples ==
  {<<"-", "-", "s", "e", "n", "d", " ", "\"", "H", "e", "l", "l", "o", " ", "w", "o", "r", "l", "d", "\"", " ", "-", "-", "l", "l", "m", " ", "c", "h", "a", "t", "g", "p", "t">>,
   <<"-", "-", "s", "e", "n", "d", " ", "\"", "H", "e", " ", "s", "a", "i", "d", " ", "\\", "\"", "h", "i", "\\", "\"", " ", "t", "o", " ", "m", "e", "\"">>,
   <<"-", "-", "s", "e", "n", "d", " ", "'", "S", "h", "e", " ", "s", "a", "i", "d", " ", "\"", "h", "i", "\"", "'">>,
   <<"-", "-", "s", "e", "n", "d", " ", "\"", "H", "e", "l", "l", "o", " ", "w", "o", "r", "l", "d", " ", "-", "-", "l", "l", "m", " ", "c", "h", "a", "t", "g", "p", "t">>,
   <<"-", "m", " ", "'", "i", "t", "'", "'", "s">>,
   <<"\"", "a", "\"", "\"", "b", "\"">>,
   <<"a", "\"", "b", " ", "c", "\"">>}

TokTexts == UNION {[1..n -> TokChars] : n \in 0..MaxText} \cup TokExamples

TokInit ==
  /\ tk_text \in TokTexts
  /\ tk = TokenizerStart
  /\ tk_pc = "scan"
  /\ ParserIdle
  /\ ConsumeIdle
  /\ HandlerIdle
  /\ CallsIdle

\* One iteration of the while loop of _tokenize.
TokenizeScan ==
  /\ tk_pc = "scan"
  /\ tk.i < Len(tk_text)
  /\ tk' = tokenize_step(tk_text, tk)
  /\ UNCHANGED <<tk_text, tk_pc, parser_vars, consume_vars, handler_vars, calls_vars>>

\* The loop has ended: the final token is added and tokens is returned.
TokenizeReturn ==
  /\ tk_pc = "scan"
  /\ ~(tk.i < Len(tk_text))
  /\ tk' = [tk EXCEPT !.tokens = tokenize_finish(tk)]
  /\ tk_pc' = "done"
  /\ UNCHANGED <<tk_text, parser_vars, consume_vars, handler_vars, calls_vars>>

TokNext == TokenizeScan \/ TokenizeReturn

TokSpec == TokInit /\ [][TokNext]_vars

\* ------------------------------------------------------------------------
\* One call of _consume_value
\* ------------------------------------------------------------------------

\* The longest generated token list.
MaxTokens == 3

\* The tokens of the generated lists: short and long flags, a bare '-', a
\* negative number, words, an empty token and a token with a space.
ConsumeTokens ==
  {<<"-", "t">>, <<"-", "-", "m", "e", "s", "s", "a", "g", "e">>, <<"-">>, <<"-", "5">>, <<"1", "0">>, <<"t", "e", "a">>, <<>>, <<"a", " ", "b">>}

ConsumeInit ==
  /\ cv_tokens \in UNION {[1..n -> ConsumeTokens] : n \in 0..MaxTokens}
  /\ cv_start \in 0..(Len(cv_tokens) + 1)
  /\ cv = None
  /\ ParserIdle
  /\ TokenizerIdle
  /\ HandlerIdle
  /\ CallsIdle

\* The call returns (value, consumed).
ConsumeValue ==
  /\ cv = None
  /\ cv' = Some(_consume_value(cv_tokens, cv_start))
  /\ UNCHANGED <<cv_tokens, cv_start, parser_vars, tokenizer_vars, handler_vars, calls_vars>>

ConsumeNext == ConsumeValue

ConsumeSpec == ConsumeInit /\ [][ConsumeNext]_vars

\* ------------------------------------------------------------------------
\* The message handler (main.py, on_message), one step per stretch of code
\* between two awaits
\* ------------------------------------------------------------------------

RECURSIVE parse_loop(_, _, _, _)
parse_loop(g, toks, idx, c) ==
  IF idx < Len(toks)
  THEN LET o == parse_step(g, toks, idx, c)
       IN  IF o.exc = "none" THEN parse_loop(g, toks, o.i, o.cmd)
           ELSE [cmd |-> o.cmd, exc |-> o.exc]
  ELSE [cmd |-> parse_exit(g, c), exc |-> "none"]

\* cmd = parse_<g>_command(msgText), from the call to its return
parse_command(g, msgText) ==
  LET e == parse_entry(g, msgText)
  IN  IF e.returned THEN [cmd |-> e.cmd, exc |-> "none"]
      ELSE parse_loop(g, e.tokens, 0, e.cmd)

\* The grammars on_message parses a message with.
HandledGrammars == {"clip", "music", "wolfram", "google", "chat", "db"}

\* The elif chain of on_message: the first prefix the message starts with.
dispatch(msgText) ==
  IF startswith(msgText, <<"$", "c", "l", "i", "p">>) THEN "clip"
  ELSE IF startswith(msgText, <<"$", "m", "u", "s", "i", "c">>) THEN "music"
  ELSE IF startswith(msgText, <<"$", "w", "o", "l", "f", "r", "a", "m">>) THEN "wolfram"
  ELSE IF startswith(msgText, <<"$", "g", "o", "o", "g", "l", "e">>) THEN "google"
  ELSE IF startswith(msgText, <<"$", "c", "h", "a", "t">>) THEN "chat"
  ELSE IF startswith(msgText, <<"$", "d", "b">>) THEN "db"
  ELSE "none"

\* The messages the handler is tried on.  Each command has lines without
\* errors for each of its paths, and lines whose errors come after a field
\* has been set.
ClipMessages ==
  {<<"$", "c", "l", "i", "p">>, <<"$", "c", "l", "i", "p", " ", "-", "-", "c", "a", "n", "c", "e", "l", " ", "-", "-", "b", "o", "g", "u", "s">>, <<"$", "c", "l", "i", "p", " ", "-", "-", "c", "o", "n", "f", "i", "r", "m", " ", "-", "-", "s", "k", "i", "p", " ", "x">>,
   <<"$", "c", "l", "i", "p", " ", "-", "-", "c", "l", "i", "p", " ", "1", " ", "-", "-", "f", "p", "s", " ", "x">>, <<"$", "c", "l", "i", "p", " ", "-", "u", " ", "a", " ", "-", "s">>,
   <<"$", "c", "l", "i", "p", " ", "-", "-", "c", "a", "n", "c", "e", "l">>, <<"$", "c", "l", "i", "p", " ", "-", "-", "c", "o", "n", "f", "i", "r", "m">>, <<"$", "c", "l", "i", "p", " ", "-", "-", "c", "o", "n", "f", "i", "r", "m", " ", "-", "-", "s", "k", "i", "p", " ", "1">>,
   <<"$", "c", "l", "i", "p", " ", "-", "-", "c", "o", "n", "f", "i", "r", "m", " ", "-", "-", "s", "k", "i", "p", " ", "2">>, <<"$", "c", "l", "i", "p", " ", "-", "-", "c", "o", "n", "f", "i", "r", "m", " ", "-", "-", "s", "k", "i", "p", " ", "0">>,
   <<"$", "c", "l", "i", "p", " ", "-", "-", "c", "l", "i", "p", " ", "1", " ", "-", "-", "f", "p", "s", " ", "5">>, <<"$", "c", "l", "i", "p", " ", "-", "-", "c", "l", "i", "p", " ", "2", " ", "-", "-", "f", "o", "r", "m", "a", "t", " ", "g", "i", "f">>,
   <<"$", "c", "l", "i", "p", " ", "-", "-", "c", "l", "i", "p", " ", "0", " ", "-", "-", "f", "p", "s", " ", "5">>, <<"$", "c", "l", "i", "p", " ", "-", "-", "c", "l", "i", "p", " ", "-", "5", " ", "-", "-", "f", "p", "s", " ", "5">>,
   <<"$", "c", "l", "i", "p", " ", "-", "-", "c", "l", "i", "p", " ", "3", " ", "-", "-", "f", "p", "s", " ", "5">>, <<"$", "c", "l", "i", "p", " ", "-", "-", "f", "p", "s", " ", "5">>, <<"$", "c", "l", "i", "p", " ", "-", "-", "b", "i", "t", "r", "a", "t", "e", " ", "a">>,
   <<"$", "c", "l", "i", "p", " ", "-", "-", "f", "o", "r", "c", "e">>, <<"$", "c", "l", "i", "p", " ", "-", "u", " ", "d">>, <<"$", "c", "l", "i", "p", " ", "-", "u", " ", "d", " ", "-", "u", " ", "e", " ", "-", "-", "f", "p", "s", " ", "5">>,
   <<"$", "c", "l", "i", "p", " ", "-", "u", " ", "d", " ", "-", "-", "f", "o", "r", "c", "e">>}

MusicMessages ==
  {<<"$", "m", "u", "s", "i", "c">>, <<"$", "m", "u", "s", "i", "c", " ", "-", "y">>, <<"$", "m", "u", "s", "i", "c", " ", "-", "-", "p", "l", "a", "y", " ", "-", "-", "b", "o", "g", "u", "s">>,
   <<"$", "m", "u", "s", "i", "c", " ", "-", "y", " ", "u", "1", " ", "-", "-", "b", "o", "g", "u", "s">>, <<"$", "m", "u", "s", "i", "c", " ", "-", "y", " ", "u", "1">>, <<"$", "m", "u", "s", "i", "c", " ", "i", "n", "i", "t", "i", "a", "l", "i", "z", "e">>,
   <<"$", "m", "u", "s", "i", "c", " ", "-", "-", "p", "l", "a", "y">>, <<"$", "m", "u", "s", "i", "c", " ", "-", "-", "n", "e", "x", "t">>, <<"$", "m", "u", "s", "i", "c", " ", "-", "-", "s", "t", "o", "p">>}

SearchMessages ==
  {<<"$", "w", "o", "l", "f", "r", "a", "m">>, <<"$", "w", "o", "l", "f", "r", "a", "m", " ", "-", "q", " ", "p", "i", " ", "-", "-", "b", "o", "g", "u", "s">>, <<"$", "w", "o", "l", "f", "r", "a", "m", " ", "-", "q", " ", "p", "i">>,
   <<"$", "g", "o", "o", "g", "l", "e", " ", "-", "-", "b", "o", "g", "u", "s">>, <<"$", "g", "o", "o", "g", "l", "e", " ", "-", "s", " ", "p", "i", " ", "-", "-", "b", "o", "g", "u", "s">>, <<"$", "g", "o", "o", "g", "l", "e", " ", "-", "s", " ", "p", "i">>}

ChatMessages ==
  {<<"$", "c", "h", "a", "t", " ", "-", "-", "l", "l", "m">>, <<"$", "c", "h", "a", "t", " ", "-", "-", "l", "l", "m", " ", "g", "e", "m", "i", "n", "i", " ", "-", "-", "b", "o", "g", "u", "s">>,
   <<"$", "c", "h", "a", "t", " ", "-", "-", "l", "i", "s", "t", "e", "n", " ", "o", "n", " ", "-", "-", "b", "o", "g", "u", "s">>, <<"$", "c", "h", "a", "t", " ", "-", "-", "c", "l", "e", "a", "r", " ", "-", "-", "m", "o", "d", "e", "l">>,
   <<"$", "c", "h", "a", "t", " ", "-", "-", "s", "e", "n", "d", " ", "h", "i", " ", "-", "-", "b", "o", "g", "u", "s">>, <<"$", "c", "h", "a", "t", " ", "-", "p", " ", "1", " ", "-", "-", "b", "o", "g", "u", "s">>,
   <<"$", "c", "h", "a", "t", " ", "-", "-", "l", "l", "m", " ", "g", "e", "m", "i", "n", "i">>, <<"$", "c", "h", "a", "t", " ", "-", "-", "m", "o", "d", "e", "l", " ", "c", "h", "a", "t", "g", "p", "t", "-", "2">>, <<"$", "c", "h", "a", "t", " ", "-", "-", "s", "e", "n", "d", " ", "h", "i">>,
   <<"$", "c", "h", "a", "t", " ", "-", "-", "c", "l", "e", "a", "r">>, <<"$", "c", "h", "a", "t", " ", "-", "-", "l", "i", "s", "t", "e", "n", " ", "o", "n">>, <<"$", "c", "h", "a", "t", " ", "-", "p", " ", "1">>}

DbMessages ==
  {<<"$", "d", "b">>, <<"$", "d", "b", " ", "-", "-", "i", "m", "p", "o", "r", "t", " ", "-", "-", "b", "o", "g", "u", "s">>, <<"$", "d", "b", " ", "-", "-", "i", "m", "p", "o", "r", "t">>, <<"$", "d", "b", " ", "-", "-", "s", "t", "a", "t", "s">>}

Messages ==
  ClipMessages \cup MusicMessages \cup SearchMessages \cup ChatMessages
    \cup DbMessages

HandlerInit ==
  /\ pending_clips \in [Channels -> UNION {InitialPending(c) : c \in Channels}]
  /\ \A c \in Channels : pending_clips[c] \in InitialPending(c)
  /\ clip_heap = InitialHeap
  /\ channel_settings = [c \in Channels |-> DefaultSettings]
  /\ chat_history = [c \in Channels |-> [l \in AvailableLLMs |-> EmptyHistory]]
  /\ music_state = MusicStopped
  /\ handlers = [h \in Handlers |-> IdleFrame]
  /\ outbox = [h \in Handlers |-> <<>>]
  /\ ParserIdle
  /\ TokenizerIdle
  /\ ConsumeIdle
  /\ CallsIdle

\* await message.channel.send(...): what was sent, by kind and content
Message(kind, body) == [kind |-> kind, body |-> body]

\* The handler h sends the messages and moves to pc.
SendAndGo(h, msgs, to) ==
  /\ outbox' = [outbox EXCEPT ![h] = @ \o msgs]
  /\ handlers' = [handlers EXCEPT ![h].pc = to]

\* A handler that never looks at the errors.
has_errors_never(c) == FALSE

\* if cmd.errors: the test every handler makes right after parsing
has_errors(c) == c.errors # <<>>

\* Handler h has parsed a message of grammar g and stands before the error
\* test.
Parsed(h, g) == handlers[h].pc = "parsed" /\ handlers[h].grammar = g

\* A message arrives: the lines of on_message up to the call of the parser,
\* and the call.  The coroutines are numbered in the order of arrival.
OnMessage(h) ==
  /\ handlers[h].pc = "idle"
  /\ \A o \in Handlers : o < h => handlers[o].pc # "idle"
  /\ \E msgText \in Messages, c \in Channels :
       LET g == dispatch(msgText)
           r == parse_command(g, msgText)
       IN  handlers' = [handlers EXCEPT ![h] =
             [pc |-> IF r.exc = "none" THEN "parsed" ELSE "raised",
              channel |-> c, grammar |-> g, text |-> msgText, cmd |-> r.cmd,
              clips |-> <<>>, k |-> 0]]
  /\ UNCHANGED <<shared_vars, outbox, parser_vars, tokenizer_vars, consume_vars, calls_vars>>

\* The error report of every handler but the chat one: "❌ " and the errors
\* joined by newlines.
ErrorReport(h) ==
  /\ has_errors(handlers[h].cmd)
  /\ SendAndGo(h, <<Message("errors", handlers[h].cmd.errors)>>, "done")
  /\ UNCHANGED <<shared_vars, parser_vars, tokenizer_vars, consume_vars, calls_vars>>

\* ---- $clip ----

ClipErrors(h) == Parsed(h, "clip") /\ ErrorReport(h)

\* The clip command passed the error test.
ClipAccepted(h) == Parsed(h, "clip") /\ ~has_errors(handlers[h].cmd)

\* --cancel: clear_pending_clips and the notice.
ClipCancel(h) ==
  /\ ClipAccepted(h)
  /\ handlers[h].cmd.cancel
  /\ pending_clips' = [pending_clips EXCEPT ![handlers[h].channel] = <<>>]
  /\ SendAndGo(h, <<Message("cancelled", <<>>)>>, "done")
  /\ UNCHANGED <<clip_heap, channel_settings, chat_history, music_state>>
  /\ UNCHANGED <<parser_vars, tokenizer_vars, consume_vars, calls_vars>>

\* [clip for i, clip in enumerate(pending) if i not in cmd.skip_indices]
skip_filter(pending, skip_indices) ==
  LET skipped(j) == \E s \in 1..Len(skip_indices) : skip_indices[s] = j - 1
  IN  SelectSeq([j \in 1..Len(pending) |-> <<j, pending[j]>>],
                LAMBDA p : ~skipped(p[1]))

clips_to_process(pending, skip_indices) ==
  LET kept == skip_filter(pending, skip_indices)
  IN  [j \in 1..Len(kept) |-> kept[j][2]]

\* --confirm, up to the first await: the pending list is read and filtered;
\* the loop over the clips follows.
ClipConfirm(h) ==
  /\ ClipAccepted(h)
  /\ ~handlers[h].cmd.cancel /\ handlers[h].cmd.confirm
  /\ LET pending == pending_clips[handlers[h].channel]
         todo    == clips_to_process(pending, handlers[h].cmd.skip_indices)
     IN  IF pending = <<>>
         THEN SendAndGo(h, <<Message("no_pending", <<>>)>>, "done")
         ELSE IF todo = <<>>
         THEN SendAndGo(h, <<Message("all_skipped", <<>>)>>, "done")
         ELSE /\ outbox' = [outbox EXCEPT ![h] = Append(@, Message("processing", Len(todo)))]
              /\ handlers' = [handlers EXCEPT ![h].pc = "confirm",
                                              ![h].clips = todo, ![h].k = 0]
  /\ UNCHANGED <<shared_vars, parser_vars, tokenizer_vars, consume_vars, calls_vars>>

\* One clip is processed: await create_clip, then the upload or the failure
\* notice.  The clip is read when create_clip is called.
Process(h, at) ==
  /\ handlers[h].pc = at
  /\ handlers[h].k < Len(handlers[h].clips)
  /\ \E success \in BOOLEAN :
       outbox' = [outbox EXCEPT ![h] =
         Append(@, Message(IF success THEN "clip" ELSE "failed",
                           clip_heap[handlers[h].clips[handlers[h].k + 1]]))]
  /\ handlers' = [handlers EXCEPT ![h].k = @ + 1]
  /\ UNCHANGED <<shared_vars, parser_vars, tokenizer_vars, consume_vars, calls_vars>>

ClipConfirmProcess(h) == Process(h, "confirm")

\* After the loop of --confirm: clear_pending_clips and the closing notice.
ClipConfirmDone(h) ==
  /\ handlers[h].pc = "confirm"
  /\ ~(handlers[h].k < Len(handlers[h].clips))
  /\ pending_clips' = [pending_clips EXCEPT ![handlers[h].channel] = <<>>]
  /\ SendAndGo(h, <<Message("all_processed", <<>>)>>, "done")
  /\ UNCHANGED <<clip_heap, channel_settings, chat_history, music_state>>
  /\ UNCHANGED <<parser_vars, tokenizer_vars, consume_vars, calls_vars>>

\* any([cmd.resolution, cmd.fps, cmd.bitrate, cmd.output_format])
has_quality_settings(c) ==
  \/ Truthy(c.resolution)
  \/ (c.fps # None /\ c.fps[1] # 0)
  \/ Truthy(c.bitrate)
  \/ Truthy(c.output_format)

\* The test that selects the update path.
is_update(c) == c.clip_index # None \/ (has_quality_settings(c) /\ c.urls = <<>>)

\* An index test and a selection that take the stored index for the number
\* the user gave, and subtract one from it.
clip_idx_of_user_number(c) == IF c.clip_index # None THEN c.clip_index[1] - 1 ELSE 0

\* clip_idx = cmd.clip_index if cmd.clip_index is not None else 0
clip_idx_of(c) == IF c.clip_index # None THEN c.clip_index[1] ELSE 0

\* The position, counted from 1, of the element lst[idx] of Python, where a
\* negative index counts from the end; 0 when lst[idx] raises IndexError.
py_index(lst, idx) ==
  IF 0 <= idx /\ idx < Len(lst) THEN idx + 1
  ELSE IF idx < 0 /\ 0 - idx <= Len(lst) THEN Len(lst) + idx + 1
  ELSE 0

\* The setattr loop of update_clip_setting with the updates the handler
\* builds from the truthy fields of the command.
apply_updates(clip, c) ==
  [clip EXCEPT
     !.resolution = IF Truthy(c.resolution) THEN c.resolution[1] ELSE @,
     !.fps = IF c.fps # None /\ c.fps[1] # 0 THEN c.fps[1] ELSE @,
     !.bitrate = IF Truthy(c.bitrate) THEN c.bitrate[1] ELSE @,
     !.output_format = IF Truthy(c.output_format) THEN c.output_format[1] ELSE @]

\* float(bitrate.replace('k', '').replace('K', '')) of estimate_clip_size
\* does not raise.
bitrate_ok(b) == float_ok(SelectSeq(b, LAMBDA ch : ch \notin {"k", "K"}))

\* The update path: the index test of the handler, update_clip_setting, and
\* the preview of the clip the handler reads back.
ClipUpdate(h) ==
  /\ ClipAccepted(h)
  /\ ~handlers[h].cmd.cancel /\ ~handlers[h].cmd.confirm
  /\ is_update(handlers[h].cmd)
  /\ LET c        == handlers[h].cmd
         pending  == pending_clips[handlers[h].channel]
         clip_idx == clip_idx_of(c)
         pos      == py_index(pending, clip_idx)
     IN  IF pending = <<>>
         THEN /\ SendAndGo(h, <<Message("no_pending_modify", <<>>)>>, "done")
              /\ UNCHANGED clip_heap
         ELSE IF clip_idx >= Len(pending)
         THEN /\ SendAndGo(h, <<Message("invalid_index", Len(pending))>>, "done")
              /\ UNCHANGED clip_heap
         ELSE IF pos = 0
         THEN /\ handlers' = [handlers EXCEPT ![h].pc = "raised"]
              /\ UNCHANGED <<clip_heap, outbox>>
         ELSE LET updated == apply_updates(clip_heap[pending[pos]], c)
              IN  /\ clip_heap' = [clip_heap EXCEPT ![pending[pos]] = updated]
                  /\ IF bitrate_ok(updated.bitrate)
                     THEN SendAndGo(h, <<Message("updated",
                            [label |-> clip_idx + 1, clip |-> updated])>>, "done")
                     ELSE /\ handlers' = [handlers EXCEPT ![h].pc = "raised"]
                          /\ UNCHANGED outbox
  /\ UNCHANGED <<pending_clips, channel_settings, chat_history, music_state>>
  /\ UNCHANGED <<parser_vars, tokenizer_vars, consume_vars, calls_vars>>

\* The create path is entered when the command has URLs and is none of the
\* above; without URLs the handler ends without an answer.
is_create(c) == ~c.cancel /\ ~c.confirm /\ ~is_update(c)

ClipNoAnswer(h) ==
  /\ ClipAccepted(h)
  /\ is_create(handlers[h].cmd) /\ handlers[h].cmd.urls = <<>>
  /\ handlers' = [handlers EXCEPT ![h].pc = "done"]
  /\ UNCHANGED <<shared_vars, outbox, parser_vars, tokenizer_vars, consume_vars, calls_vars>>

ClipCreate(h) ==
  /\ ClipAccepted(h)
  /\ is_create(handlers[h].cmd) /\ handlers[h].cmd.urls # <<>>
  /\ outbox' = [outbox EXCEPT ![h] = Append(@, Message("fetching", <<>>))]
  /\ handlers' = [handlers EXCEPT ![h].pc = "fetch", ![h].clips = <<>>, ![h].k = 0]
  /\ UNCHANGED <<shared_vars, parser_vars, tokenizer_vars, consume_vars, calls_vars>>

\* The ClipSpec the create path builds for a URL.
new_clip(url, c) ==
  ClipSpec(url,
           IF Truthy(c.resolution) THEN c.resolution[1] ELSE BestOption.resolution,
           IF c.fps # None /\ c.fps[1] # 0 THEN c.fps[1] ELSE BestOption.fps,
           IF Truthy(c.bitrate) THEN c.bitrate[1] ELSE BestOption.bitrate,
           IF Truthy(c.output_format) THEN c.output_format[1] ELSE <<"m", "p", "4">>)

\* One URL of the create path: await get_video_info, then either the new
\* ClipSpec joins the list or the URL is reported (the service failed, the
\* times are not in order, the size cannot be estimated).
ClipFetch(h) ==
  /\ handlers[h].pc = "fetch"
  /\ handlers[h].k < Len(handlers[h].cmd.urls)
  /\ LET url  == handlers[h].cmd.urls[handlers[h].k + 1]
         clip == new_clip(url, handlers[h].cmd)
     IN  \E usable \in BOOLEAN :
           IF usable /\ bitrate_ok(clip.bitrate)
           THEN /\ clip_heap' = Append(clip_heap, clip)
                /\ handlers' = [handlers EXCEPT ![h].k = @ + 1,
                                  ![h].clips = Append(@, Len(clip_heap) + 1)]
                /\ UNCHANGED outbox
           ELSE /\ outbox' = [outbox EXCEPT ![h] = Append(@, Message("url_rejected", url))]
                /\ handlers' = [handlers EXCEPT ![h].k = @ + 1]
                /\ UNCHANGED clip_heap
  /\ UNCHANGED <<pending_clips, channel_settings, chat_history, music_state>>
  /\ UNCHANGED <<parser_vars, tokenizer_vars, consume_vars, calls_vars>>

\* After the loop over the URLs: nothing usable, --force, or the preview,
\* which stores the list with store_pending_clips.
ClipFetchDone(h) ==
  /\ handlers[h].pc = "fetch"
  /\ ~(handlers[h].k < Len(handlers[h].cmd.urls))
  /\ IF handlers[h].clips = <<>>
     THEN /\ SendAndGo(h, <<Message("no_valid_clips", <<>>)>>, "done")
          /\ UNCHANGED pending_clips
     ELSE IF handlers[h].cmd.force
     THEN /\ outbox' = [outbox EXCEPT ![h] =
                 Append(@, Message("processing_now", Len(handlers[h].clips)))]
          /\ handlers' = [handlers EXCEPT ![h].pc = "force", ![h].k = 0]
          /\ UNCHANGED pending_clips
     ELSE /\ pending_clips' =
                 [pending_clips EXCEPT ![handlers[h].channel] = handlers[h].clips]
          /\ SendAndGo(h, <<Message("preview", Len(handlers[h].clips))>>, "done")
  /\ UNCHANGED <<clip_heap, channel_settings, chat_history, music_state>>
  /\ UNCHANGED <<parser_vars, tokenizer_vars, consume_vars, calls_vars>>

ClipForceProcess(h) == Process(h, "force")

ClipForceDone(h) ==
  /\ handlers[h].pc = "force"
  /\ ~(handlers[h].k < Len(handlers[h].clips))
  /\ handlers' = [handlers EXCEPT ![h].pc = "done"]
  /\ UNCHANGED <<shared_vars, outbox, parser_vars, tokenizer_vars, consume_vars, calls_vars>>

\* ---- $music ----

MusicErrors(h) == Parsed(h, "music") /\ ErrorReport(h)

\* list.insert(at, x)
list_insert(lst, at, x) ==
  LET a == IF at > Len(lst) THEN Len(lst) ELSE at
  IN  SubSeq(lst, 1, a) \o <<x>> \o SubSeq(lst, a + 1, Len(lst))

\* The loop over cmd.youtube_urls: each URL that loads is inserted at
\* insert_position + idx, or appended when insert_position is past the end.
RECURSIVE insert_urls(_, _, _, _, _)
insert_urls(playlist, urls, idx, insert_position, loaded) ==
  IF idx >= Len(urls) THEN playlist
  ELSE IF (idx + 1) \notin loaded
  THEN insert_urls(playlist, urls, idx + 1, insert_position, loaded)
  ELSE insert_urls(IF insert_position <= Len(playlist)
                   THEN list_insert(playlist, insert_position + idx, urls[idx + 1])
                   ELSE Append(playlist, urls[idx + 1]),
                   urls, idx + 1, insert_position, loaded)

clamp(number, playlist) ==
  LET length == Len(playlist)
      n1     == IF number < 1 THEN number + length - 1 ELSE number
  IN  IF n1 >= length THEN n1 - length + 1 ELSE n1

Connected(m) == m.voice_chat = "connected"

\* What one run of the music handler does to the player: the new state, the
\* messages, and whether an exception left the handler.  in_voice is
\* whether the author is in a voice channel, loaded the URLs yt_dlp loads.
music_run(m, c, channel, in_voice, loaded) ==
  LET action == IF c.action = None THEN <<>> ELSE c.action[1]
      result(state, msgs) == [state |-> state, msgs |-> msgs, raised |-> FALSE]
      raise(state) == [state |-> state, msgs |-> <<>>, raised |-> TRUE]
      select(state, index, msgs) ==
        IF py_index(state.runtime_playlist, index) = 0
        THEN raise([state EXCEPT !.song_index = index])
        ELSE result([state EXCEPT !.song_index = index], msgs)
      not_initialized == result(m, <<Message("not_initialized", <<>>)>>)
  IN  IF action = <<"p", "l", "a", "y", "T", "e", "s", "t">> THEN result(m, <<Message("test_started", <<>>)>>)
      ELSE IF action = <<"y", "o", "u", "t", "u", "b", "e">>
      THEN IF c.youtube_urls = <<>> THEN result(m, <<Message("no_url", <<>>)>>)
           ELSE IF ~Connected(m) /\ ~in_voice
           THEN result(m, <<Message("need_voice", <<>>)>>)
           ELSE LET joined == [m EXCEPT !.voice_chat = "connected"]
                    pos    == m.song_index + 1
                    added  == [joined EXCEPT !.runtime_playlist =
                                 insert_urls(@, c.youtube_urls, 0, pos, loaded)]
                IN  IF loaded = {} THEN result(joined, <<Message("all_failed", <<>>)>>)
                    ELSE IF c.queue_only
                    THEN result(added, <<Message("queued", Cardinality(loaded))>>)
                    ELSE IF py_index(added.runtime_playlist, pos) = 0
                    THEN result([added EXCEPT !.playing = FALSE, !.song_index = pos],
                                <<Message("youtube_error", <<>>)>>)
                    ELSE result([added EXCEPT !.playing = TRUE, !.song_index = pos],
                                <<Message("now_playing", Cardinality(loaded))>>)
      ELSE IF action = <<"i", "n", "i", "t">>
      THEN IF ~in_voice THEN result(m, <<Message("need_voice", <<>>)>>)
           ELSE select([m EXCEPT !.voice_chat = "connected", !.playing = TRUE,
                                 !.saved = @ \cup {channel}],
                       clamp(m.song_index, m.runtime_playlist),
                       <<Message("initialized", <<>>)>>)
      ELSE IF action = <<"s", "t", "o", "p">>
      THEN IF m.voice_chat = "None" THEN not_initialized
           ELSE result([m EXCEPT !.voice_chat = "disconnected", !.playing = FALSE,
                                 !.saved = @ \ {channel}],
                       <<Message("stopped", <<>>)>>)
      ELSE IF action = <<"n", "a", "m", "e">>
      THEN result([m EXCEPT !.playing = IF Connected(m) THEN TRUE ELSE @],
                  <<Message("name", m.song_index)>>)
      ELSE IF action = <<"p", "l", "a", "y">>
      THEN IF ~Connected(m) THEN not_initialized
           ELSE result([m EXCEPT !.playing = TRUE, !.saved = @ \cup {channel}],
                       <<Message("started", <<>>)>>)
      ELSE IF action = <<"p", "a", "u", "s", "e">>
      THEN IF ~Connected(m) THEN not_initialized
           ELSE result([m EXCEPT !.playing = FALSE, !.saved = @ \cup {channel}],
                       <<Message("paused", <<>>)>>)
      ELSE IF action = <<"n", "e", "x", "t">>
      THEN IF ~Connected(m) THEN not_initialized
           ELSE select([m EXCEPT !.playing = TRUE],
                       clamp(m.song_index + 1, m.runtime_playlist),
                       <<Message("next", <<>>)>>)
      ELSE IF action = <<"p", "r", "e", "v">>
      THEN IF ~Connected(m) THEN not_initialized
           ELSE select([m EXCEPT !.playing = TRUE],
                       clamp(m.song_index - 1, m.runtime_playlist),
                       <<Message("previous", <<>>)>>)
      ELSE result(m, <<>>)

\* The music handler past the error test, from the action to its return.
MusicHandle(h) ==
  /\ Parsed(h, "music") /\ ~has_errors(handlers[h].cmd)
  /\ \E in_voice \in BOOLEAN,
        loaded \in SUBSET (1..Len(handlers[h].cmd.youtube_urls)) :
       LET r == music_run(music_state, handlers[h].cmd, handlers[h].channel,
                          in_voice, loaded)
       IN  /\ music_state' = r.state
           /\ SendAndGo(h, r.msgs, IF r.raised THEN "raised" ELSE "done")
  /\ UNCHANGED <<pending_clips, clip_heap, channel_settings, chat_history>>
  /\ UNCHANGED <<parser_vars, tokenizer_vars, consume_vars, calls_vars>>

\* ---- $wolfram and $google ----

WolframErrors(h) == Parsed(h, "wolfram") /\ ErrorReport(h)

GoogleErrors(h) == Parsed(h, "google") /\ ErrorReport(h)

\* A search handler past the error test: the query is sent to the service
\* and the answer to the channel.
Search(h, g) ==
  /\ Parsed(h, g) /\ ~has_errors(handlers[h].cmd)
  /\ IF ~Truthy(handlers[h].cmd.query)
     THEN SendAndGo(h, <<Message("no_query", <<>>)>>, "done")
     ELSE SendAndGo(h, <<Message("answer", handlers[h].cmd.query[1])>>, "done")
  /\ UNCHANGED <<shared_vars, parser_vars, tokenizer_vars, consume_vars, calls_vars>>

WolframHandle(h) == Search(h, "wolfram")

GoogleHandle(h) == Search(h, "google")

\* ---- $chat ----

\* The error report of the chat handler: a heading and one bullet per error.
ChatErrors(h) ==
  /\ Parsed(h, "chat")
  /\ has_errors(handlers[h].cmd)
  /\ SendAndGo(h, <<Message("command_errors", handlers[h].cmd.errors)>>, "done")
  /\ UNCHANGED <<shared_vars, parser_vars, tokenizer_vars, consume_vars, calls_vars>>

InSeq(x, s) == \E k \in 1..Len(s) : s[k] = x

\* What one run of the chat handler does to the settings and the histories
\* of its channel, and the responses it collects, in the order of the code:
\* LLM, model, prompt, clear, listen, send, models, status.  preset_ok is
\* whether the prompt index names a preset of llm_config.json.
chat_run(settings, history, c, preset_ok) ==
  LET s1 == IF Truthy(c.llm) /\ c.llm[1] \in AvailableLLMs
            THEN [settings EXCEPT !.llm = c.llm[1], !.model = ModelsOf(c.llm[1])[1]]
            ELSE settings
      r1 == IF ~Truthy(c.llm) THEN <<>>
            ELSE IF c.llm[1] \in AvailableLLMs THEN <<"switched">> ELSE <<"unknown_llm">>
      model_ok == Truthy(c.model) /\ InSeq(c.model[1], ModelsOf(s1.llm))
      s2 == IF model_ok THEN [s1 EXCEPT !.model = c.model[1]] ELSE s1
      r2 == IF ~Truthy(c.model) THEN <<>>
            ELSE IF model_ok THEN <<"model_set">> ELSE <<"invalid_model">>
      action == IF Truthy(c.prompt_action) THEN c.prompt_action[1] ELSE <<>>
      h3 == IF action = <<"s", "e", "t">>
            THEN [history EXCEPT ![s2.llm] = [prompt |-> "custom", turns |-> 0]]
            ELSE IF isdigit(action) /\ preset_ok
            THEN [history EXCEPT ![s2.llm].prompt = "preset"]
            ELSE history
      r3 == IF action = <<>> THEN <<>>
            ELSE IF action = <<"l", "i", "s", "t">> THEN <<"prompt_list">>
            ELSE IF action = <<"s", "h", "o", "w">> THEN <<"prompt_shown">>
            ELSE IF action = <<"s", "e", "t">> THEN <<"prompt_set">>
            ELSE IF isdigit(action)
            THEN IF preset_ok THEN <<"prompt_changed">> ELSE <<"invalid_index">>
            ELSE <<>>
      h4 == IF c.clear_history THEN [h3 EXCEPT ![s2.llm] = EmptyHistory] ELSE h3
      r4 == IF c.clear_history THEN <<"history_cleared">> ELSE <<>>
      mode == IF Truthy(c.listen_mode) THEN c.listen_mode[1] ELSE <<>>
      s5 == IF mode = <<"o", "n">> THEN [s2 EXCEPT !.listen_mode = TRUE]
            ELSE IF mode = <<"o", "f", "f">> THEN [s2 EXCEPT !.listen_mode = FALSE]
            ELSE s2
      r5 == IF mode = <<"o", "n">> THEN <<"listen_on">>
            ELSE IF mode = <<"o", "f", "f">> THEN <<"listen_off">> ELSE <<>>
      h6 == IF Truthy(c.message) THEN [h4 EXCEPT ![s5.llm].turns = @ + 1] ELSE h4
      r6 == IF Truthy(c.message) THEN <<"reply">> ELSE <<>>
      r7 == IF c.show_models THEN <<"models">> ELSE <<>>
      r8 == IF c.show_status /\ ~(Truthy(c.message) \/ c.show_models \/ action = <<"l", "i", "s", "t">>)
            THEN <<"status">> ELSE <<>>
      responses == r1 \o r2 \o r3 \o r4 \o r5 \o r6 \o r7 \o r8
  IN  [settings |-> s5, history |-> h6,
       responses |-> IF responses # <<>> THEN responses ELSE <<"status">>]

\* The chat handler past the error test, from the first action to the send.
ChatHandle(h) ==
  /\ Parsed(h, "chat") /\ ~has_errors(handlers[h].cmd)
  /\ \E preset_ok \in BOOLEAN :
       LET ch == handlers[h].channel
           r  == chat_run(channel_settings[ch], chat_history[ch],
                          handlers[h].cmd, preset_ok)
       IN  /\ channel_settings' = [channel_settings EXCEPT ![ch] = r.settings]
           /\ chat_history' = [chat_history EXCEPT ![ch] = r.history]
           /\ SendAndGo(h, <<Message("responses", r.responses)>>, "done")
  /\ UNCHANGED <<pending_clips, clip_heap, music_state>>
  /\ UNCHANGED <<parser_vars, tokenizer_vars, consume_vars, calls_vars>>

\* ---- $db ----

DbErrors(h) == Parsed(h, "db") /\ ErrorReport(h)

\* The db handler past the error test.  An import that succeeds replaces
\* the tables with the content of the export file, here an empty one.
DbHandle(h) ==
  /\ Parsed(h, "db") /\ ~has_errors(handlers[h].cmd)
  /\ LET action == IF handlers[h].cmd.action = None THEN <<>>
                   ELSE handlers[h].cmd.action[1]
     IN  \E imported \in BOOLEAN :
           IF action = <<"i", "m", "p", "o", "r", "t">> /\ imported
           THEN /\ channel_settings' = [c \in Channels |-> DefaultSettings]
                /\ chat_history' =
                     [c \in Channels |-> [l \in AvailableLLMs |-> EmptyHistory]]
                /\ music_state' = [music_state EXCEPT !.saved = {}]
                /\ SendAndGo(h, <<Message("imported", <<>>)>>, "done")
           ELSE /\ SendAndGo(h, IF action = <<"i", "m", "p", "o", "r", "t">>
                                THEN <<Message("import_failed", <<>>)>>
                                ELSE IF action = <<"e", "x", "p", "o", "r", "t">>
                                THEN <<Message("exported", <<>>)>>
                                ELSE IF action = <<"s", "t", "a", "t", "s">>
                                THEN <<Message("stats", <<>>)>>
                                ELSE <<>>, "done")
                /\ UNCHANGED <<channel_settings, chat_history, music_state>>
  /\ UNCHANGED <<pending_clips, clip_heap>>
  /\ UNCHANGED <<parser_vars, tokenizer_vars, consume_vars, calls_vars>>

HandlerNext ==
  \E h \in Handlers :
    \/ OnMessage(h)
    \/ ClipErrors(h) \/ ClipCancel(h)
    \/ ClipConfirm(h) \/ ClipConfirmProcess(h) \/ ClipConfirmDone(h)
    \/ ClipUpdate(h) \/ ClipNoAnswer(h)
    \/ ClipCreate(h) \/ ClipFetch(h) \/ ClipFetchDone(h)
    \/ ClipForceProcess(h) \/ ClipForceDone(h)
    \/ MusicErrors(h) \/ MusicHandle(h)
    \/ WolframErrors(h) \/ WolframHandle(h)
    \/ GoogleErrors(h) \/ GoogleHandle(h)
    \/ ChatErrors(h) \/ ChatHandle(h)
    \/ DbErrors(h) \/ DbHandle(h)

HandlerSpec == HandlerInit /\ [][HandlerNext]_vars


\* ------------------------------------------------------------------------
\* Calls of the parsers one after another
\* ------------------------------------------------------------------------

\* How many calls are followed in one behaviour.
MaxCalls == 3

\* The attributes each __init__ binds to a list of its own, in the order of
\* the assignments.
ListFields(g) ==
  CASE g = "music" -> <<"youtube_urls", "errors">>
    [] g = "clip"  -> <<"urls", "starts", "ends", "skip_indices", "errors">>
    [] OTHER       -> <<"errors">>

\* The lines the calls are made on: for every grammar a line with an
\* unknown flag, and documented lines and a clip line that fill the lists.
CallLines(g) ==
  {LineOf(g, <<<<"-", "-", "b", "o", "g", "u", "s">>>>)}
    \cup (CASE g = "chat"  -> {<<"$", "c", "h", "a", "t", " ", "-", "l", " ", "C", "H", "A", "T", "G", "P", "T", " ", "-", "m", " ", "g", "p", "t", "-", "4", " ", "-", "p", " ", "2", " ", "-", "s", " ", "T", "e", "s", "t", " ", "m", "e", "s", "s", "a", "g", "e">>}
            [] g = "music" -> {<<"$", "m", "u", "s", "i", "c", " ", "-", "y", " ", "-", "-", "q", "u", "e", "u", "e", " ", "u", "r", "l", "1", " ", "u", "r", "l", "2", " ", "u", "r", "l", "3">>,
                               <<"$", "m", "u", "s", "i", "c", " ", "-", "y", " ", "u", "r", "l", "1", " ", "u", "r", "l", "2", " ", "u", "r", "l", "3">>}
            [] g = "clip"  -> {<<"$", "c", "l", "i", "p", " ", "-", "u", " ", "a", " ", "-", "-", "s", "k", "i", "p", " ", "2", " ", "-", "-", "b", "o", "g", "u", "s">>,
                               <<"$", "c", "l", "i", "p", " ", "-", "u", " ", "\"", "h", "t", "t", "p", "s", ":", "/", "/", "x", "/", "a", "\"", " ", "-", "s", " ", "5", " ", "-", "e", " ", "1", "5", " ", "-", "u", " ", "\"", "h", "t", "t", "p", "s", ":", "/", "/", "x", "/", "b", "\"", " ", "-", "s", " ", "2", "0", " ", "-", "e", " ", "3", "0">>}
            [] OTHER       -> {})

\* One list kept by the class and handed to every object, where __init__
\* makes a list for each.
list_of_the_class(heap, n) == n

\* self.<attribute> = []: the nth list __init__ creates is a new object.
new_list(heap, n) == Len(heap) + n

\* The list objects after a call that bound the attributes of attrs to
\* the lists ids and appended to each the items of c.
heap_after(heap, attrs, ids, c) ==
  LET top == SetMax({Len(heap)} \cup {ids[n] : n \in 1..Len(attrs)})
      appended(k) ==
        IF \E n \in 1..Len(attrs) : ids[n] = k
        THEN c[attrs[CHOOSE n \in 1..Len(attrs) : ids[n] = k]]
        ELSE <<>>
  IN  [k \in 1..top |-> (IF k <= Len(heap) THEN heap[k] ELSE <<>>) \o appended(k)]

\* The command object as the caller holds it: each list attribute is a
\* reference into the list objects.
with_references(c, attrs, ids) ==
  [f \in DOMAIN c |->
     IF \E n \in 1..Len(attrs) : attrs[n] = f
     THEN ids[CHOOSE n \in 1..Len(attrs) : attrs[n] = f]
     ELSE c[f]]

\* The object with each reference replaced by the content of its list.
deref(obj, attrs, heap) ==
  [f \in DOMAIN obj |->
     IF \E n \in 1..Len(attrs) : attrs[n] = f THEN heap[obj[f]] ELSE obj[f]]

CallsInit ==
  /\ list_heap = <<>>
  /\ calls = <<>>
  /\ ParserIdle
  /\ TokenizerIdle
  /\ ConsumeIdle
  /\ HandlerIdle

\* One call parse_<g>_command(line), from the constructor to the return or
\* the exception.  The record keeps the object and a copy of what it held
\* when it was returned.
Call(g) ==
  /\ Len(calls) < MaxCalls
  /\ \E line \in CallLines(g) :
       \E r \in {parse_command(g, line)} :
         LET attrs == ListFields(g)
             ids   == [n \in 1..Len(attrs) |-> new_list(list_heap, n)]
         IN  \E heap \in {heap_after(list_heap, attrs, ids, r.cmd)},
                obj \in {with_references(r.cmd, attrs, ids)} :
               /\ list_heap' = heap
               /\ calls' = Append(calls,
                    [grammar |-> g, line |-> line, exc |-> r.exc, obj |-> obj,
                     returned |-> deref(obj, attrs, heap)])
  /\ UNCHANGED <<parser_vars, tokenizer_vars, consume_vars, handler_vars>>

CallsNext == \E g \in Grammars : Call(g)

CallsSpec == CallsInit /\ [][CallsNext]_vars

\* ------------------------------------------------------------------------
\* A call of a parser or of _tokenize that is not held up for ever
\* ------------------------------------------------------------------------

\* Nothing has been called yet.
RunInit ==
  /\ ParserIdle
  /\ TokenizerIdle
  /\ ConsumeIdle
  /\ HandlerIdle
  /\ CallsIdle

Idle == pc = "idle" /\ tk_pc = "idle"

\* A parser is called on a line.
CallParser ==
  /\ Idle
  /\ \E g \in Grammars : \E line \in Lines(g) :
       /\ grammar' = g
       /\ command_text' = line
  /\ pc' = "call"
  /\ UNCHANGED <<tokens, i, cmd, exc>>
  /\ UNCHANGED <<tokenizer_vars, consume_vars, handler_vars, calls_vars>>

\* _tokenize is called on a text.
CallTokenize ==
  /\ Idle
  /\ tk_text' \in TokTexts
  /\ tk_pc' = "scan"
  /\ UNCHANGED <<tk, parser_vars, consume_vars, handler_vars, calls_vars>>

\* The caller takes the result or the exception of the parser call.
ParserReturned ==
  /\ pc \in {"done", "raised"}
  /\ grammar' = "none"
  /\ command_text' = <<>>
  /\ pc' = "idle"
  /\ tokens' = <<>>
  /\ i' = 0
  /\ cmd' = <<>>
  /\ exc' = "none"
  /\ UNCHANGED <<tokenizer_vars, consume_vars, handler_vars, calls_vars>>

\* The caller takes the token list of the _tokenize call.
TokenizeReturned ==
  /\ tk_pc = "done"
  /\ tk_text' = <<>>
  /\ tk' = TokenizerStart
  /\ tk_pc' = "idle"
  /\ UNCHANGED <<parser_vars, consume_vars, handler_vars, calls_vars>>

RunNext ==
  \/ CallParser \/ CallTokenize
  \/ Next \/ TokNext
  \/ ParserReturned \/ TokenizeReturned

\* A parser call is under way: a step of Next is possible.
Running == pc \in {"call", "loop"}

\* Weak fairness of the parser steps, with the enabling condition of Next
\* written out as Running: the interpreter keeps executing the call it has
\* started.
ParserFair == []<>(~Running) \/ []<><<Next>>_vars

\* The interpreter keeps executing the call it has started.
RunSpec == RunInit /\ [][RunNext]_vars /\ WF_vars(TokNext) /\ ParserFair

\* ------------------------------------------------------------------------
\* Vocabulary of the properties
\* ------------------------------------------------------------------------

\* The command object a grammar starts from.
NewCommand(g) ==
  CASE g = "chat"     -> ChatCommand
    [] g = "music"    -> MusicCommand
    [] g = "wolfram"  -> SearchCommand
    [] g = "google"   -> SearchCommand
    [] g = "db"       -> DbCommand
    [] g = "reminder" -> ReminderCommand
    [] g = "clip"     -> ClipCommand

\* The flag a value-taking alias stands for, by the name its errors use.
FlagName(g, token) ==
  CASE g = "chat" ->
         IF token \in ChatLlmFlags THEN "--llm"
         ELSE IF token \in ChatModelFlags THEN "--model"
         ELSE IF token \in ChatPromptFlags THEN "--prompt"
         ELSE IF token \in ChatSendFlags THEN "--send"
         ELSE "--listen"
    [] g = "music"    -> "--youtube"
    [] g = "wolfram"  -> "--query"
    [] g = "google"   -> "--search"
    [] g = "reminder" -> IF token \in ReminderTimeFlags THEN "--time" ELSE "--message"
    [] g = "clip" ->
         IF token \in ClipUrlFlags THEN "--url"
         ELSE IF token \in ClipStartFlags THEN "--start"
         ELSE IF token \in ClipEndFlags THEN "--end"
         ELSE IF token \in ClipResolutionFlags THEN "--resolution"
         ELSE IF token \in ClipFpsFlags THEN "--fps"
         ELSE IF token \in ClipBitrateFlags THEN "--bitrate"
         ELSE IF token \in ClipFormatFlags THEN "--format"
         ELSE IF token \in ClipClipFlags THEN "--clip"
         ELSE "--skip"

\* The field of the command object c that a value-taking alias populates.
FlagField(g, token, c) ==
  CASE g = "chat" ->
         IF token \in ChatLlmFlags THEN c.llm
         ELSE IF token \in ChatModelFlags THEN c.model
         ELSE IF token \in ChatPromptFlags THEN <<c.prompt_action, c.prompt_value>>
         ELSE IF token \in ChatSendFlags THEN c.message
         ELSE c.listen_mode
    [] g = "music"    -> c.youtube_urls
    [] g = "wolfram"  -> c.query
    [] g = "google"   -> c.query
    [] g = "reminder" -> IF token \in ReminderTimeFlags THEN <<c.minutes>> ELSE c.message
    [] g = "clip" ->
         IF token \in ClipUrlFlags THEN c.urls
         ELSE IF token \in ClipStartFlags THEN c.starts
         ELSE IF token \in ClipEndFlags THEN c.ends
         ELSE IF token \in ClipResolutionFlags THEN c.resolution
         ELSE IF token \in ClipFpsFlags THEN c.fps
         ELSE IF token \in ClipBitrateFlags THEN c.bitrate
         ELSE IF token \in ClipFormatFlags THEN c.output_format
         ELSE IF token \in ClipClipFlags THEN c.clip_index
         ELSE c.skip_indices

\* Whether the token matches an alias of grammar g.
IsAlias(g, token) ==
  CASE g = "chat" ->
         token \in ValueFlags("chat") \cup ChatModelsFlags \cup ChatStatusFlags
                     \cup ChatClearFlags
    [] g = "music" ->
         \/ music_action_of(token) # None
         \/ token \in MusicYoutubeFlags \cup MusicQueueFlags
    [] g = "wolfram"  -> token \in WolframQueryFlags
    [] g = "google"   -> token \in GoogleSearchFlags
    [] g = "db"       -> db_action_of(token) # None
    [] g = "reminder" -> token \in ValueFlags("reminder")
    [] g = "clip" ->
         token \in ValueFlags("clip") \cup {<<"-", "-", "f", "o", "r", "c", "e">>, <<"-", "-", "c", "o", "n", "f", "i", "r", "m">>, <<"-", "-", "c", "a", "n", "c", "e", "l">>}

\* The text left of the line once the prefix and the blanks around it are
\* stripped.
Remainder(g, line) == strip_prefix(line, Prefix(g))

IsUnknownFlagError(e) == e.text = "Unknown flag:"

\* The loop is about to dispatch tokens[i].
Dispatching == pc = "loop" /\ i < Len(tokens)

\* The token being dispatched.
Token == tokens[i + 1]

\* The tokens after the dispatched one, up to the next flag-like token.
ValueRun == SubSeq(tokens, i + 2, consume_stop(tokens, i + 1))

\* The step appends exactly one error, and that error names the flag.
AppendsErrorNaming(flag) ==
  /\ Len(cmd'.errors) = Len(cmd.errors) + 1
  /\ SubSeq(cmd'.errors, 1, Len(cmd.errors)) = cmd.errors
  /\ cmd'.errors[Len(cmd'.errors)].flag = flag

\* ------------------------------------------------------------------------
\* C1
\* ------------------------------------------------------------------------

\* C1: every parser returns a command object for every line and never
\* raises an exception; malformed input shows only in the errors list.
C1_NeverRaises == pc # "raised" /\ exc = "none"

\* ------------------------------------------------------------------------
\* C2
\* ------------------------------------------------------------------------

\* A line that is only whitespace, or only the prefix with whitespace
\* around it.
BlankLine(g, line) == strip(line) = <<>> \/ strip(line) = Prefix(g)

\* C2 as stated: on a blank line every grammar returns with no error.
C2_BlankLineNoErrors ==
  (pc = "done" /\ BlankLine(grammar, command_text)) => cmd.errors = <<>>

\* What each grammar returns on a blank line.
BlankLineResult(g) ==
  CASE g = "chat"     -> [ChatCommand EXCEPT !.show_status = TRUE]
    [] g = "reminder" -> ReminderCommand
    [] g = "music"    -> AddError(MusicCommand, Error("", "No action specified", <<>>))
    [] g = "db"       -> AddError(DbCommand, Error("", "No action specified", <<>>))
    [] g = "wolfram"  -> AddError(SearchCommand, Error("", "No query provided", <<>>))
    [] g = "google"   -> AddError(SearchCommand, Error("", "No query provided", <<>>))
    [] g = "clip"     -> AddError(ClipCommand, Error("", "No parameters provided", <<>>))

\* C2, amended: on a blank line the chat grammar returns show_status with
\* no error and the reminder grammar its defaults with no error; the
\* music, db, wolfram, google and clip grammars return exactly one error
\* ("No action specified", "No query provided", "No parameters provided")
\* and every other field at its initial value.  No blank line reaches the
\* token loop.
C2_BlankLineResult ==
  BlankLine(grammar, command_text) =>
    /\ pc \in {"call", "done"}
    /\ pc = "done" => cmd = BlankLineResult(grammar)

C2_Witness ==
  /\ pc = "done"
  /\ grammar = "clip"
  /\ command_text = Prefix("clip") \o <<" ", " ">>
  /\ Len(cmd.errors) = 1

\* ------------------------------------------------------------------------
\* C3
\* ------------------------------------------------------------------------

\* C3: when the last token of the line is dispatched and is a flag that
\* requires a value, that step appends exactly one error, the error names
\* the flag, and the field the flag populates is left as it was.
C3_TrailingFlag ==
  [][(Dispatching /\ i = Len(tokens) - 1 /\ Token \in ValueFlags(grammar)) =>
       /\ AppendsErrorNaming(FlagName(grammar, Token))
       /\ FlagField(grammar, Token, cmd') = FlagField(grammar, Token, cmd)]_vars

\* ------------------------------------------------------------------------
\* C4
\* ------------------------------------------------------------------------

\* The indices the token loop dispatches, from index k on.
RECURSIVE Dispatched(_, _, _, _)
Dispatched(g, toks, k, c) ==
  IF k < Len(toks)
  THEN LET o == parse_step(g, toks, k, c)
       IN  IF o.exc = "none" THEN {k} \cup Dispatched(g, toks, o.i, o.cmd) ELSE {k}
  ELSE {}

\* The indices dispatched to the unknown-flag branch.
UnknownIndices(g, toks) ==
  {k \in Dispatched(g, toks, 0, NewCommand(g)) : ~IsAlias(g, toks[k + 1])}

\* The tokens without those at the given indices.
RECURSIVE Without(_, _, _)
Without(toks, drop, k) ==
  IF k >= Len(toks) THEN <<>>
  ELSE (IF k \in drop THEN <<>> ELSE <<toks[k + 1]>>) \o Without(toks, drop, k + 1)

\* The tokens at the given indices, in order.
RECURSIVE Only(_, _, _)
Only(toks, keep, k) ==
  IF k >= Len(toks) THEN <<>>
  ELSE (IF k \in keep THEN <<toks[k + 1]>> ELSE <<>>) \o Only(toks, keep, k + 1)

\* The command object the token loop and the code after it produce.
RECURSIVE RunLoop(_, _, _, _)
RunLoop(g, toks, k, c) ==
  IF k < Len(toks)
  THEN LET o == parse_step(g, toks, k, c)
       IN  IF o.exc = "none" THEN RunLoop(g, toks, o.i, o.cmd) ELSE o.cmd
  ELSE parse_exit(g, c)

\* The fields of a command object other than its errors.
Fields(c) == [c EXCEPT !.errors = <<>>]

\* The tokens of the "Unknown flag" errors, in order.
UnknownReported(c) ==
  LET es == SelectSeq(c.errors, IsUnknownFlagError)
  IN  [k \in 1..Len(es) |-> es[k].arg]

\* C4, per token: a dispatched token that matches no alias appends exactly
\* the error "Unknown flag: <token>", changes no field and moves the index
\* by one, so the loop goes on.
C4_UnknownStep ==
  (Dispatching /\ ~IsAlias(grammar, Token)) =>
     /\ cmd' = AddError(cmd, Error("", "Unknown flag:", Token))
     /\ i' = i + 1
     /\ pc' = "loop"

\* C4, per line: when the loop has run to the end, the "Unknown flag"
\* errors are the unknown tokens in order, one each, and the fields are
\* those the same tokens without the unknown ones produce.
C4_UnknownLine ==
  (pc = "done" /\ tokens # <<>>) =>
     LET unknown == UnknownIndices(grammar, tokens)
     IN  /\ i >= Len(tokens)
         /\ UnknownReported(cmd) = Only(tokens, unknown, 0)
         /\ Fields(cmd) =
              Fields(RunLoop(grammar, Without(tokens, unknown, 0), 0, NewCommand(grammar)))

\* C4: in the flag-driven path of every grammar each token that matches no
\* alias and is not consumed as a value produces exactly one "Unknown flag:
\* <token>" error, parsing continues to the end of the tokens, and the
\* recognized flags set their fields as they do without the unknown tokens.
C4_UnknownFlags == [][C4_UnknownStep]_vars /\ []C4_UnknownLine

C4_Witness ==
  /\ pc = "done"
  /\ grammar = "chat"
  /\ tokens = <<<<"-", "-", "b", "o", "g", "u", "s">>, <<"-", "l">>, <<"O", "n">>>>
  /\ cmd.llm = Some(<<"o", "n">>)
  /\ Len(cmd.errors) = 1

\* ------------------------------------------------------------------------
\* C5
\* ------------------------------------------------------------------------

\* C5: when a flag that requires a value is dispatched and the next token
\* is flag-like, the step appends a missing-value error naming the flag,
\* leaves the flag's field as it was and moves the index by one, so the
\* following token is dispatched as a flag.
C5_FlagThenFlag ==
  [][(/\ Dispatching
      /\ Token \in ValueFlags(grammar)
      /\ i + 1 < Len(tokens)
      /\ is_flag_like(tokens[i + 2])) =>
       /\ AppendsErrorNaming(FlagName(grammar, Token))
       /\ FlagField(grammar, Token, cmd') = FlagField(grammar, Token, cmd)
       /\ i' = i + 1
       /\ pc' = "loop"]_vars

\* ------------------------------------------------------------------------
\* C6
\* ------------------------------------------------------------------------

\* The step away from command object c to d stores the value v in the field
\* of the flag, coerced as the flag coerces it; urls is what --youtube adds.
StoresValue(g, token, c, d, v, urls) ==
  CASE g = "chat" ->
         IF token \in ChatLlmFlags THEN d = [c EXCEPT !.llm = Some(lower(v))]
         ELSE IF token \in ChatModelFlags THEN d = [c EXCEPT !.model = Some(v)]
         ELSE IF token \in ChatPromptFlags THEN d = [c EXCEPT !.prompt_action = Some(v)]
         ELSE IF token \in ChatSendFlags THEN d = [c EXCEPT !.message = Some(v)]
         ELSE d = [c EXCEPT !.listen_mode = Some(lower(v))]
    [] g = "music" ->
         d = [c EXCEPT !.action = Some(<<"y", "o", "u", "t", "u", "b", "e">>), !.youtube_urls = @ \o urls]
    [] g = "wolfram"  -> d = [c EXCEPT !.query = Some(v)]
    [] g = "google"   -> d = [c EXCEPT !.query = Some(v)]
    [] g = "reminder" ->
         IF token \in ReminderTimeFlags
         THEN d = [c EXCEPT !.minutes = float_value(split(v)[1])]
         ELSE d = [c EXCEPT !.message = Some(v)]
    [] g = "clip" ->
         IF token \in ClipUrlFlags THEN d = [c EXCEPT !.urls = Append(@, v)]
         ELSE IF token \in ClipStartFlags THEN d = [c EXCEPT !.starts = Append(@, v)]
         ELSE IF token \in ClipEndFlags THEN d = [c EXCEPT !.ends = Append(@, v)]
         ELSE IF token \in ClipResolutionFlags THEN d = [c EXCEPT !.resolution = Some(v)]
         ELSE IF token \in ClipFpsFlags THEN d = [c EXCEPT !.fps = Some(int_value(v))]
         ELSE IF token \in ClipBitrateFlags THEN d = [c EXCEPT !.bitrate = Some(v)]
         ELSE IF token \in ClipFormatFlags THEN d = [c EXCEPT !.output_format = Some(v)]
         ELSE IF token \in ClipClipFlags
         THEN d = [c EXCEPT !.clip_index = Some(int_value(v) - 1)]
         ELSE d = [c EXCEPT !.skip_indices = Append(@, int_value(v) - 1)]

\* A flag that takes a value is dispatched, at least one token that is not
\* flag-like follows it, and the step accepts the value: it appends no
\* error and raises nothing.
AcceptsValue ==
  /\ Dispatching
  /\ Token \in ValueFlags(grammar)
  /\ ValueRun # <<>>
  /\ pc' = "loop"
  /\ cmd'.errors = cmd.errors

ProtocolGrammars == {"chat", "wolfram", "google", "reminder"}

LegacyText(g, line) ==
  LET text == Remainder(g, line) IN text # <<>> /\ text[1] # "-"

HasUnknownFlagError(c) == \E k \in 1..Len(c.errors) : IsUnknownFlagError(c.errors[k])

\* C7 as stated: on such a line every grammar returns without entering the
\* token loop and reports no unknown flag.
C7_LegacyEverywhere ==
  LegacyText(grammar, command_text) =>
    /\ pc \in {"call", "done"}
    /\ pc = "done" => ~HasUnknownFlagError(cmd)

LegacyGrammars == {"music", "wolfram", "google", "reminder"}

\* The first whitespace-delimited word of a text, and what follows it.
FirstWord(text) == split(text)[1]

AfterFirstWord(text) ==
  LET rest == DropFirst(text, Len(FirstWord(text)))
  IN  IF strip(rest) = <<>> THEN None ELSE Some(strip(rest))

\* The legacy reading of a text by the grammars that have one.
LegacyResult(g, text) ==
  CASE g = "music" ->
         [action |-> Some(IF FirstWord(text) = <<"i", "n", "i", "t", "i", "a", "l", "i", "z", "e">> THEN <<"i", "n", "i", "t">>
                          ELSE IF FirstWord(text) = <<"p", "r", "e", "v", "i", "o", "u", "s">> THEN <<"p", "r", "e", "v">>
                          ELSE FirstWord(text)),
          youtube_urls |-> <<>>, queue_only |-> FALSE, errors |-> <<>>]
    [] g \in {"wolfram", "google"} -> [query |-> Some(text), errors |-> <<>>]
    [] g = "reminder" ->
         IF float_ok(FirstWord(text))
         THEN [minutes |-> float_value(FirstWord(text)),
               message |-> AfterFirstWord(text), errors |-> <<>>]
         ELSE [minutes |-> DefaultMinutes, message |-> None,
               errors |-> <<Error("", "Invalid time format", <<>>)>>]

\* C7, amended: on such a line the music, wolfram, google and reminder
\* grammars apply their legacy reading and return without entering the
\* token loop, so they report no unknown flag; the db grammar does so only
\* for the whole lines $dbStats, $dbExport and $dbImport.  The chat and clip
\* grammars, and the db grammar on any other line, have no legacy form:
\* they tokenize the text and dispatch its tokens as flags.
C7_LegacyWhereSupported ==
  LegacyText(grammar, command_text) =>
    LET text == Remainder(grammar, command_text)
    IN  IF grammar \in LegacyGrammars
        THEN /\ pc \in {"call", "done"}
             /\ pc = "done" =>
                  /\ cmd = LegacyResult(grammar, text)
                  /\ ~HasUnknownFlagError(cmd)
        ELSE IF grammar = "db" /\ db_legacy_action(strip(command_text)) # None
        THEN /\ pc \in {"call", "done"}
             /\ pc = "done" => cmd = [action |-> db_legacy_action(strip(command_text)),
                                      errors |-> <<>>]
        ELSE /\ pc = "loop" => tokens = _tokenize(text)
             /\ pc = "done" =>
                  cmd = RunLoop(grammar, _tokenize(text), 0, NewCommand(grammar))

C7_Witness ==
  /\ pc = "done"
  /\ grammar = "reminder"
  /\ command_text = <<"$", "r", "e", "m", "i", "n", "d", "M", "e", "I", "n", " ", "1", "0", " ", "T", "a", "k", "e", " ", "a", " ", "b", "r", "e", "a", "k">>
  /\ cmd.minutes = 10
  /\ cmd.message = Some(<<"T", "a", "k", "e", " ", "a", " ", "b", "r", "e", "a", "k">>)

\* ------------------------------------------------------------------------
\* C8
\* ------------------------------------------------------------------------

\* The aliases of the flags that require a numeric value.
NumericFlags(g) ==
  CASE g = "reminder" -> ReminderTimeFlags
    [] g = "clip"     -> ClipFpsFlags \cup ClipClipFlags \cup ClipSkipFlags
    [] OTHER          -> {}

\* The value after the dispatched numeric flag has a first word, and that
\* word fails to parse as a number.
BadNumber ==
  IF grammar = "reminder"
  THEN split(join(ValueRun)) # <<>> /\ ~float_ok(split(join(ValueRun))[1])
  ELSE split(ValueRun[1]) # <<>> /\ ~int_ok(ValueRun[1])

\* The index after the offending value token(s).
PastBadNumber == IF grammar = "reminder" THEN i + Len(ValueRun) + 1 ELSE i + 2

\* C8: when a flag that requires a number is followed by a value that
\* fails to parse, the step appends one error naming the flag, leaves the
\* field as it was and moves the index past the offending token(s), which
\* are therefore not dispatched.
C8_BadNumberSkipped ==
  [][(/\ Dispatching
      /\ Token \in NumericFlags(grammar)
      /\ ValueRun # <<>>
      /\ BadNumber) =>
       /\ pc' = "loop"
       /\ AppendsErrorNaming(FlagName(grammar, Token))
       /\ FlagField(grammar, Token, cmd') = FlagField(grammar, Token, cmd)
       /\ i' >= PastBadNumber]_vars

\* ------------------------------------------------------------------------
\* C9
\* ------------------------------------------------------------------------

\* The tokens after `set`, up to the next flag-like token.
PromptText == SubSeq(tokens, i + 3, consume_stop(tokens, i + 2))

\* C9: in the chat grammar --prompt (or -p) followed by `set` and at least
\* one text token sets prompt_action to 'set' and prompt_value to the text
\* tokens joined by single spaces, appends no error, and moves the index to
\* the first token after the prompt text.
C9_PromptSet ==
  [][(/\ Dispatching
      /\ grammar = "chat"
      /\ Token \in ChatPromptFlags
      /\ i + 2 < Len(tokens)
      /\ tokens[i + 2] = <<"s", "e", "t">>
      /\ PromptText # <<>>
      /\ join(PromptText) # <<>>) =>
       /\ cmd' = [cmd EXCEPT !.prompt_action = Some(<<"s", "e", "t">>),
                             !.prompt_value = Some(join(PromptText))]
       /\ i' = i + 2 + Len(PromptText)]_vars

\* ------------------------------------------------------------------------
\* C10
\* ------------------------------------------------------------------------

HasUpper(s) == \E k \in 1..Len(s) : \E u \in 1..Len(UpperChars) : s[k] = UpperChars[u]

\* The documented example and its result.
C10_Example ==
  (/\ pc = "done"
   /\ grammar = "chat"
   /\ Remainder("chat", command_text) = <<"-", "l", " ", "C", "H", "A", "T", "G", "P", "T", " ", "-", "m", " ", "g", "p", "t", "-", "4", " ", "-", "p", " ", "2", " ", "-", "s", " ", "T", "e", "s", "t", " ", "m", "e", "s", "s", "a", "g", "e">>) =>
     cmd = [ChatCommand EXCEPT !.llm = Some(<<"c", "h", "a", "t", "g", "p", "t">>),
                               !.model = Some(<<"g", "p", "t", "-", "4">>),
                               !.prompt_action = Some(<<"2">>),
                               !.message = Some(<<"T", "e", "s", "t", " ", "m", "e", "s", "s", "a", "g", "e">>)]

\* An accepted --llm value is stored lower-cased, and the value ends at the
\* next flag-like token or at the end of the line.
C10_LlmStep ==
  (AcceptsValue /\ grammar = "chat" /\ Token \in ChatLlmFlags) =>
     /\ cmd'.llm # None
     /\ ~HasUpper(cmd'.llm[1])
     /\ Len(cmd'.llm[1]) = Len(join(ValueRun))
     /\ \A k \in 1..Len(cmd'.llm[1]) :
          \/ cmd'.llm[1][k] = join(ValueRun)[k]
          \/ \E u \in 1..Len(UpperChars) :
               join(ValueRun)[k] = UpperChars[u] /\ cmd'.llm[1][k] = LowerChars[u]
     /\ i' = Len(tokens) \/ is_flag_like(tokens[i' + 1])
     /\ \A k \in (i + 1)..(i' - 1) : ~is_flag_like(tokens[k + 1])

\* An all-digit --prompt value is stored as the prompt action, as it is.
C10_PromptDigitsStep ==
  (/\ Dispatching /\ grammar = "chat" /\ Token \in ChatPromptFlags
   /\ ValueRun # <<>> /\ isdigit(join(ValueRun))) =>
     /\ cmd' = [cmd EXCEPT !.prompt_action = Some(join(ValueRun))]
     /\ i' = i + 2

\* C10: `$chat -l CHATGPT -m gpt-4 -p 2 -s Test message` yields llm
\* 'chatgpt', model 'gpt-4', prompt_action '2', message 'Test message' and no
\* error; --llm values are lower-cased, a value is ended by the next flag
\* token, and an all-digit --prompt value is stored as the prompt action.
C10_ChatExample == []C10_Example /\ [][C10_LlmStep /\ C10_PromptDigitsStep]_vars

C10_Witness ==
  /\ pc = "done"
  /\ command_text = <<"$", "c", "h", "a", "t", " ", "-", "l", " ", "C", "H", "A", "T", "G", "P", "T", " ", "-", "m", " ", "g", "p", "t", "-", "4", " ", "-", "p", " ", "2", " ", "-", "s", " ", "T", "e", "s", "t", " ", "m", "e", "s", "s", "a", "g", "e">>
  /\ cmd.llm = Some(<<"c", "h", "a", "t", "g", "p", "t">>)
  /\ cmd.message = Some(<<"T", "e", "s", "t", " ", "m", "e", "s", "s", "a", "g", "e">>)

\* ------------------------------------------------------------------------
\* C11
\* ------------------------------------------------------------------------

\* The tokens that follow the dispatched occurrences of the flags in F, in
\* input order; idx are the dispatched indices.
RECURSIVE ValuesAfter(_, _, _, _)
ValuesAfter(toks, idx, F, k) ==
  IF k >= Len(toks) THEN <<>>
  ELSE (IF k \in idx /\ toks[k + 1] \in F /\ k + 1 < Len(toks)
        THEN <<toks[k + 2]>> ELSE <<>>) \o ValuesAfter(toks, idx, F, k + 1)

\* A dispatched --url, --start or --end that a token follows appends that
\* token to the end of its own list and changes nothing else.
C11_AppendStep ==
  (Dispatching /\ grammar = "clip" /\ i + 1 < Len(tokens)) =>
     /\ Token \in ClipUrlFlags => cmd' = [cmd EXCEPT !.urls = Append(@, tokens[i + 2])]
     /\ Token \in ClipStartFlags => cmd' = [cmd EXCEPT !.starts = Append(@, tokens[i + 2])]
     /\ Token \in ClipEndFlags => cmd' = [cmd EXCEPT !.ends = Append(@, tokens[i + 2])]

\* When the clip parser has returned, each list holds the values of the
\* dispatched occurrences of its flag, the k-th occurrence at position k.
C11_Lists ==
  (pc = "done" /\ grammar = "clip" /\ tokens # <<>>) =>
     LET idx == Dispatched("clip", tokens, 0, ClipCommand)
     IN  /\ cmd.urls = ValuesAfter(tokens, idx, ClipUrlFlags, 0)
         /\ cmd.starts = ValuesAfter(tokens, idx, ClipStartFlags, 0)
         /\ cmd.ends = ValuesAfter(tokens, idx, ClipEndFlags, 0)

\* The documented two-clip line and its result.
C11_Example ==
  (/\ pc = "done"
   /\ grammar = "clip"
   /\ command_text = <<"$", "c", "l", "i", "p", " ", "-", "u", " ", "\"", "h", "t", "t", "p", "s", ":", "/", "/", "x", "/", "a", "\"", " ", "-", "s", " ", "5", " ", "-", "e", " ", "1", "5", " ", "-", "u", " ", "\"", "h", "t", "t", "p", "s", ":", "/", "/", "x", "/", "b", "\"", " ", "-", "s", " ", "2", "0", " ", "-", "e", " ", "3", "0">>) =>
     cmd = [ClipCommand EXCEPT !.urls = <<<<"h", "t", "t", "p", "s", ":", "/", "/", "x", "/", "a">>, <<"h", "t", "t", "p", "s", ":", "/", "/", "x", "/", "b">>>>,
                               !.starts = <<<<"5">>, <<"2", "0">>>>,
                               !.ends = <<<<"1", "5">>, <<"3", "0">>>>]

QueueBetween ==
  /\ Len(tokens) >= 3
  /\ tokens[1] \in MusicYoutubeFlags
  /\ tokens[2] \in MusicQueueFlags
  /\ \A k \in 3..Len(tokens) : ~is_flag_like(tokens[k])

\* C12: in the music grammar `-y --queue url1 url2 url3` (the queue flag
\* between --youtube and its URLs) yields action 'youtube', queue_only True,
\* youtube_urls [url1, url2, url3] in order and no error.
C12_QueueBetweenUrls ==
  (pc = "done" /\ grammar = "music" /\ QueueBetween) =>
     cmd = [action |-> Some(<<"y", "o", "u", "t", "u", "b", "e">>), youtube_urls |-> SubSeq(tokens, 3, Len(tokens)),
            queue_only |-> TRUE, errors |-> <<>>]

\* ------------------------------------------------------------------------
\* Vocabulary of the tokenizer properties
\* ------------------------------------------------------------------------

\* The while loop of _tokenize is about to read tk_text[tk.i].
Scanning == tk_pc = "scan" /\ tk.i < Len(tk_text)

\* The character being read.
Char == tk_text[tk.i + 1]

IsQuote(c) == c = "\"" \/ c = "'"

\* Inside a quoted region, a backslash is read and a quote character or a
\* backslash follows it.
Escaping ==
  /\ Scanning
  /\ tk.in_quotes
  /\ Char = "\\"
  /\ tk.i + 1 < Len(tk_text)
  /\ (IsQuote(tk_text[tk.i + 2]) \/ tk_text[tk.i + 2] = "\\")

\* ------------------------------------------------------------------------
\* C13
\* ------------------------------------------------------------------------

C13_Example ==
  (tk_pc = "done" /\ tk_text = <<"-", "-", "s", "e", "n", "d", " ", "\"", "H", "e", "l", "l", "o", " ", "w", "o", "r", "l", "d", "\"", " ", "-", "-", "l", "l", "m", " ", "c", "h", "a", "t", "g", "p", "t">>) =>
     tk.tokens = <<<<"-", "-", "s", "e", "n", "d">>, <<"H", "e", "l", "l", "o", " ", "w", "o", "r", "l", "d">>, <<"-", "-", "l", "l", "m">>, <<"c", "h", "a", "t", "g", "p", "t">>>>

\* Whitespace read inside a quoted region is appended to the current token
\* and emits no token.
C13_SpaceInQuotes ==
  (Scanning /\ tk.in_quotes /\ Char = " ") =>
     tk' = [tk EXCEPT !.current_token = Append(@, " "), !.i = @ + 1]

\* The quote character that opens a region, and the one that closes it, is
\* not appended to the token: opening leaves the token as it is, closing
\* emits it as it is.
C13_QuotesDropped ==
  /\ (Scanning /\ ~tk.in_quotes /\ IsQuote(Char)) =>
       tk' = [tk EXCEPT !.in_quotes = TRUE, !.quote_char = Char, !.i = @ + 1]
  /\ (Scanning /\ tk.in_quotes /\ Char = tk.quote_char) =>
       /\ tk'.tokens = Append(tk.tokens, tk.current_token)
       /\ tk'.current_token = <<>>
       /\ ~tk'.in_quotes
       /\ tk'.i = tk.i + 1

\* C13: _tokenize('--send "Hello world" --llm chatgpt') returns exactly the
\* four tokens --send, Hello world, --llm, chatgpt; whitespace inside a
\* quoted region never splits a token, and the opening and closing quote
\* characters are not part of the token.
C13_QuotedToken == []C13_Example /\ [][C13_SpaceInQuotes /\ C13_QuotesDropped]_vars

C13_Witness ==
  /\ tk_pc = "done"
  /\ tk_text = <<"-", "-", "s", "e", "n", "d", " ", "\"", "H", "e", "l", "l", "o", " ", "w", "o", "r", "l", "d", "\"", " ", "-", "-", "l", "l", "m", " ", "c", "h", "a", "t", "g", "p", "t">>
  /\ Len(tk.tokens) = 4
  /\ tk.tokens[2] = <<"H", "e", "l", "l", "o", " ", "w", "o", "r", "l", "d">>

\* ------------------------------------------------------------------------
\* C14
\* ------------------------------------------------------------------------

C14_Example ==
  (tk_pc = "done" /\ tk_text = <<"-", "-", "s", "e", "n", "d", " ", "\"", "H", "e", " ", "s", "a", "i", "d", " ", "\\", "\"", "h", "i", "\\", "\"", " ", "t", "o", " ", "m", "e", "\"">>) =>
     tk.tokens = <<<<"-", "-", "s", "e", "n", "d">>, <<"H", "e", " ", "s", "a", "i", "d", " ", "\"", "h", "i", "\"", " ", "t", "o", " ", "m", "e">>>>

\* The escape pair appends its second character only, and the region, the
\* active quote character and the emitted tokens stay as they are.
C14_EscapeStep ==
  Escaping =>
    tk' = [tk EXCEPT !.current_token = Append(@, tk_text[tk.i + 2]), !.i = @ + 2]

\* C14: inside a quoted region a backslash followed by '"', "'" or '\'
\* appends only the following character to the current token and neither
\* opens nor closes a region; `--send "He said \"hi\" to me"` tokenizes to
\* exactly --send and He said "hi" to me.
C14_Escapes == []C14_Example /\ [][C14_EscapeStep]_vars

C14_Witness ==
  /\ tk_pc = "done"
  /\ tk_text = <<"-", "-", "s", "e", "n", "d", " ", "\"", "H", "e", " ", "s", "a", "i", "d", " ", "\\", "\"", "h", "i", "\\", "\"", " ", "t", "o", " ", "m", "e", "\"">>
  /\ Len(tk.tokens) = 2
  /\ tk.tokens[2] = <<"H", "e", " ", "s", "a", "i", "d", " ", "\"", "h", "i", "\"", " ", "t", "o", " ", "m", "e">>

\* ------------------------------------------------------------------------
\* C15
\* ------------------------------------------------------------------------

C15_Example ==
  (tk_pc = "done" /\ tk_text = <<"-", "-", "s", "e", "n", "d", " ", "'", "S", "h", "e", " ", "s", "a", "i", "d", " ", "\"", "h", "i", "\"", "'">>) =>
     tk.tokens = <<<<"-", "-", "s", "e", "n", "d">>, <<"S", "h", "e", " ", "s", "a", "i", "d", " ", "\"", "h", "i", "\"">>>>

\* The other quote character, read inside a region, is appended as it is
\* and the region stays open with the same active quote character.
C15_OtherQuoteStep ==
  (Scanning /\ tk.in_quotes /\ IsQuote(Char) /\ Char # tk.quote_char) =>
     tk' = [tk EXCEPT !.current_token = Append(@, Char), !.i = @ + 1]

\* C15: a quote character that differs from the active quote character of
\* the current region is appended to the token literally and never closes
\* the region; `--send 'She said "hi"'` tokenizes to --send and the single
\* token She said "hi", double quotes kept.
C15_OtherQuote == []C15_Example /\ [][C15_OtherQuoteStep]_vars

C15_Witness ==
  /\ tk_pc = "done"
  /\ tk_text = <<"-", "-", "s", "e", "n", "d", " ", "'", "S", "h", "e", " ", "s", "a", "i", "d", " ", "\"", "h", "i", "\"", "'">>
  /\ Len(tk.tokens) = 2
  /\ tk.tokens[2] = <<"S", "h", "e", " ", "s", "a", "i", "d", " ", "\"", "h", "i", "\"">>

\* ------------------------------------------------------------------------
\* C16
\* ------------------------------------------------------------------------

\* The text holds exactly one quote character and no backslash: that quote
\* opens a region nothing closes.
OneOpenQuote(s) ==
  /\ Cardinality({k \in 1..Len(s) : IsQuote(s[k])}) = 1
  /\ \A k \in 1..Len(s) : s[k] # "\\"

\* The position of that quote.
QuoteAt(s) == CHOOSE k \in 1..Len(s) : IsQuote(s[k])

\* The part of the text before the quote, up to its last whitespace, and
\* the word left between that whitespace and the quote.
BeforeWord(s) ==
  LET ws == {k \in 1..(QuoteAt(s) - 1) : s[k] = " "}
  IN  IF ws = {} THEN <<>> ELSE SubSeq(s, 1, SetMax(ws))

WordAtQuote(s) == SubSeq(s, Len(BeforeWord(s)) + 1, QuoteAt(s) - 1)

\* Every iteration moves forward and stays within the text, so the loop
\* ends; the function has no failing path.
C16_Progress ==
  Scanning => (tk'.i > tk.i /\ tk'.i <= Len(tk_text) /\ tk_pc' = "scan")

\* Inside a region, a character that does not close it is appended to the
\* current token, whitespace included, and no token is emitted; of an
\* escape pair the second character is the one appended.
C16_RegionStep ==
  (Scanning /\ tk.in_quotes /\ Char # tk.quote_char) =>
     /\ tk'.in_quotes /\ tk'.quote_char = tk.quote_char
     /\ tk'.tokens = tk.tokens
     /\ tk'.current_token =
          Append(tk.current_token, IF Escaping THEN tk_text[tk.i + 2] ELSE Char)

\* At the end of the text the current token, if non-empty, is emitted as
\* the last token, region open or not.
C16_FinalStep ==
  (tk_pc = "scan" /\ ~Scanning) =>
     /\ tk_pc' = "done"
     /\ tk'.tokens = IF tk.current_token # <<>>
                     THEN Append(tk.tokens, tk.current_token) ELSE tk.tokens

\* On a text with one quote and no backslash: the tokens before the region
\* are the words before it, and the last token is the word the quote is
\* attached to followed by every character after the quote.
C16_OpenRegion ==
  (tk_pc = "done" /\ OneOpenQuote(tk_text)) =>
     LET last == WordAtQuote(tk_text) \o DropFirst(tk_text, QuoteAt(tk_text))
     IN  tk.tokens = split(BeforeWord(tk_text))
                       \o (IF last # <<>> THEN <<last>> ELSE <<>>)

LooksLikeFlag(t) ==
  /\ Len(t) > 1
  /\ t[1] = "-"
  /\ t[2] \notin {"0", "1", "2", "3", "4", "5", "6", "7", "8", "9"}

\* The maximal run of consecutive tokens that are not flag-like, from the
\* 0-based index k on.
RECURSIVE NonFlagRun(_, _)
NonFlagRun(toks, k) ==
  IF k >= Len(toks) \/ LooksLikeFlag(toks[k + 1]) THEN <<>>
  ELSE <<toks[k + 1]>> \o NonFlagRun(toks, k + 1)

\* C17: for every token sequence and every start index >= 0, _consume_value
\* returns (None, 1) when the index is out of range or the token there is
\* flag-like; otherwise it returns the maximal run of consecutive tokens
\* that are not flag-like, starting at the index and joined by single
\* spaces, with a consumed count of the length of the run plus one.
C17_ConsumeValue ==
  cv # None =>
    LET run == NonFlagRun(cv_tokens, cv_start)
    IN  IF cv_start >= Len(cv_tokens) \/ LooksLikeFlag(cv_tokens[cv_start + 1])
        THEN cv[1] = [value |-> None, consumed |-> 1]
        ELSE cv[1] = [value |-> Some(join(run)), consumed |-> Len(run) + 1]

C17_Witness ==
  /\ cv_tokens = <<<<"-", "t">>, <<"1", "0">>, <<"t", "e", "a">>>>
  /\ cv_start = 1
  /\ cv = Some([value |-> Some(<<"1", "0", " ", "t", "e", "a">>), consumed |-> 3])

\* ------------------------------------------------------------------------
\* C18
\* ------------------------------------------------------------------------

\* A token that starts with '-' and whose second character is a digit.
NegativeNumber(t) ==
  /\ Len(t) > 1
  /\ t[1] = "-"
  /\ t[2] \in {"0", "1", "2", "3", "4", "5", "6", "7", "8", "9"}

\* The 0-based index k holds a negative number that follows the dispatched
\* flag with no flag-like token in between.
NegativeInValue(k) ==
  /\ k > i /\ k < Len(tokens)
  /\ NegativeNumber(tokens[k + 1])
  /\ \A j \in (i + 1)..(k - 1) : ~LooksLikeFlag(tokens[j + 1])

\* When a flag read through _consume_value accepts its value, a negative
\* number among the tokens after it lies within the value: the index moves
\* past it and the stored value is made of every token up to the new index.
C18_Step ==
  (/\ Dispatching
   /\ grammar \in ProtocolGrammars
   /\ Token \in ValueFlags(grammar)
   /\ pc' = "loop"
   /\ cmd'.errors = cmd.errors) =>
     \A k \in 0..(Len(tokens) - 1) :
        NegativeInValue(k) =>
          /\ i' > k
          /\ StoresValue(grammar, Token, cmd, cmd', join(SubSeq(tokens, i + 2, i')), <<>>)

C18_Example ==
  (/\ pc = "done"
   /\ grammar = "reminder"
   /\ Remainder("reminder", command_text) = <<"-", "-", "t", "i", "m", "e", " ", "-", "5", " ", "-", "-", "m", "e", "s", "s", "a", "g", "e", " ", "x">>) =>
     cmd = [minutes |-> 0 - 5, message |-> Some(<<"x">>), errors |-> <<>>]

\* C18: a token that starts with '-' and whose second character is a digit,
\* when it follows a flag read through _consume_value, is collected as part
\* of that flag's value and does not end the value; the reminder line
\* `--time -5 --message x` sets minutes -5.0 and message 'x' with no error.
C18_NegativeNumbers == []C18_Example /\ [][C18_Step]_vars

C18_Witness ==
  /\ pc = "done"
  /\ grammar = "reminder"
  /\ command_text = <<"$", "r", "e", "m", "i", "n", "d", "M", "e", "I", "n", " ", "-", "-", "t", "i", "m", "e", " ", "-", "5", " ", "-", "-", "m", "e", "s", "s", "a", "g", "e", " ", "x">>
  /\ cmd.minutes = 0 - 5
  /\ cmd.message = Some(<<"x">>)
  /\ cmd.errors = <<>>

\* ------------------------------------------------------------------------
\* C19
\* ------------------------------------------------------------------------

\* The tokens of the clip message handler h has parsed.
ClipTokens(h) == _tokenize(strip_prefix(handlers[h].text, <<"$", "c", "l", "i", "p">>))

\* The indices the token loop of parse_clip_command visits.
RECURSIVE LoopPositions(_, _, _)
LoopPositions(toks, idx, c) ==
  IF idx < Len(toks)
  THEN LET o == parse_clip_step(toks, idx, c)
       IN  {idx} \cup LoopPositions(toks, o.i, o.cmd)
  ELSE {}

\* The numbers N the user gave to a flag of the set flags, in the order of
\* the line: the flag was reached by the loop and an integer follows it.
RECURSIVE NumbersFrom(_, _, _, _)
NumbersFrom(toks, flags, visited, idx) ==
  IF idx >= Len(toks) THEN <<>>
  ELSE IF /\ idx \in visited /\ toks[idx + 1] \in flags
          /\ idx + 1 < Len(toks) /\ int_ok(toks[idx + 2])
  THEN <<int_value(toks[idx + 2])>> \o NumbersFrom(toks, flags, visited, idx + 1)
  ELSE NumbersFrom(toks, flags, visited, idx + 1)

NumbersGiven(h, flags) ==
  NumbersFrom(ClipTokens(h), flags, LoopPositions(ClipTokens(h), 0, ClipCommand), 0)

HasParsedClip(h) ==
  handlers[h].grammar = "clip" /\ handlers[h].pc \notin {"idle", "raised"}

\* At parse time: skip_indices holds N - 1 for each --skip N in order, and
\* clip_index is N - 1 for the last --clip N.
C19_ParseTime ==
  \A h \in Handlers :
    HasParsedClip(h) /\ handlers[h].text # <<"$", "c", "l", "i", "p">> =>
      LET skips == NumbersGiven(h, ClipSkipFlags)
          clips == NumbersGiven(h, ClipClipFlags)
      IN  /\ handlers[h].cmd.skip_indices = [j \in 1..Len(skips) |-> skips[j] - 1]
          /\ handlers[h].cmd.clip_index =
               IF clips = <<>> THEN None ELSE Some(clips[Len(clips)] - 1)

\* --confirm: the clips to process are the pending ones but those whose
\* number, counted from 1, the user gave to --skip.
C19_ConfirmStep ==
  \A h \in Handlers :
    Parsed(h, "clip") /\ handlers'[h].pc = "confirm" =>
      LET pending == pending_clips[handlers[h].channel]
          skips   == NumbersGiven(h, ClipSkipFlags)
          named(j) == \E s \in 1..Len(skips) : skips[s] = j
          kept    == {j \in 1..Len(pending) : ~named(j)}
      IN  /\ Len(handlers'[h].clips) = Cardinality(kept)
          /\ \A j \in kept :
               handlers'[h].clips[Cardinality({m \in kept : m <= j})] = pending[j]

\* The update path: the one clip that changes is the element the stored
\* index selects in the pending list, as Python indexes a list; for
\* --clip N with N from 1 to the length, that is the Nth pending clip.
C19_UpdateStep ==
  \A h \in Handlers :
    Parsed(h, "clip") /\ handlers'[h].pc # "parsed" /\ clip_heap' # clip_heap
      /\ Len(clip_heap') = Len(clip_heap) =>
      LET pending == pending_clips[handlers[h].channel]
          stored  == handlers[h].cmd.clip_index
          idx     == IF stored = None THEN 0 ELSE stored[1]
          clips   == NumbersGiven(h, ClipClipFlags)
          changed == {id \in 1..Len(clip_heap) : clip_heap'[id] # clip_heap[id]}
      IN  /\ py_index(pending, idx) # 0
          /\ changed = {pending[py_index(pending, idx)]}
          /\ (clips # <<>> /\ clips[Len(clips)] \in 1..Len(pending)
                => changed = {pending[clips[Len(clips)]]})

\* C19: in the clip grammar --clip N stores clip_index = N - 1 and each
\* --skip N appends N - 1 to skip_indices at parse time, for every integer N
\* the flag accepts, and the handler selects pending clips with the stored
\* index as it is: --confirm leaves out the clips numbered N, the update
\* path changes the clip the stored index selects.
C19_IndexConvertedOnce ==
  /\ []C19_ParseTime
  /\ [][C19_ConfirmStep /\ C19_UpdateStep]_vars

\* One handler has updated the second pending clip of its channel with
\* --clip 2, another has started a --confirm --skip 1 that is left with the
\* second clip only.
C19_Witness ==
  \E h1, h2 \in Handlers :
    /\ handlers[h1].text = <<"$", "c", "l", "i", "p", " ", "-", "-", "c", "l", "i", "p", " ", "2", " ", "-", "-", "f", "o", "r", "m", "a", "t", " ", "g", "i", "f">>
    /\ handlers[h1].channel = "c1" /\ handlers[h1].pc = "done"
    /\ handlers[h1].cmd.clip_index = Some(1)
    /\ clip_heap[2].output_format = <<"g", "i", "f">>
    /\ clip_heap[1].output_format = <<"m", "p", "4">>
    /\ handlers[h2].text = <<"$", "c", "l", "i", "p", " ", "-", "-", "c", "o", "n", "f", "i", "r", "m", " ", "-", "-", "s", "k", "i", "p", " ", "1">>
    /\ handlers[h2].channel = "c1" /\ handlers[h2].pc = "confirm"
    /\ handlers[h2].cmd.skip_indices = <<0>>
    /\ handlers[h2].clips = <<2>>

\* ------------------------------------------------------------------------
\* C20
\* ------------------------------------------------------------------------

\* Handler h holds a parsed command whose errors list is not empty.
HoldsErrors(h) ==
  /\ handlers[h].grammar \in HandledGrammars
  /\ handlers[h].pc \notin {"idle", "raised"}
  /\ handlers[h].cmd.errors # <<>>

\* The one message that reports the errors of the command of handler h.
ErrorsSent(h) ==
  <<Message(IF handlers[h].grammar = "chat" THEN "command_errors" ELSE "errors",
            handlers[h].cmd.errors)>>

\* The step a handler takes with such a command sends the errors, ends the
\* handler and changes nothing else.
C20_ErrorStep ==
  \A h \in Handlers :
    HoldsErrors(h) /\ handlers'[h] # handlers[h] =>
      /\ handlers[h].pc = "parsed"
      /\ handlers'[h] = [handlers[h] EXCEPT !.pc = "done"]
      /\ outbox'[h] = outbox[h] \o ErrorsSent(h)
      /\ UNCHANGED <<pending_clips, clip_heap, channel_settings, chat_history,
                     music_state>>

\* Past the error test, such a handler has returned and the errors are all
\* it has sent.
C20_Returned ==
  \A h \in Handlers :
    HoldsErrors(h) /\ handlers[h].pc # "parsed" =>
      handlers[h].pc = "done" /\ outbox[h] = ErrorsSent(h)

\* C20: in the message handler, whenever a parsed command object (clip,
\* music, wolfram, google, chat, db) has a non-empty errors list, the
\* handler only sends the error strings and returns: pending clips, listen
\* mode, LLM, model and prompt settings, chat history and the music state
\* are left unchanged, whatever fields the object has set.
C20_ErrorsOnly == []C20_Returned /\ [][C20_ErrorStep]_vars

\* Two commands with a field set and an error have been handled: the
\* pending clips --cancel would have cleared are still there, and listen
\* mode is still off.
C20_Witness ==
  \E h1, h2 \in Handlers :
    /\ handlers[h1].text = <<"$", "c", "l", "i", "p", " ", "-", "-", "c", "a", "n", "c", "e", "l", " ", "-", "-", "b", "o", "g", "u", "s">>
    /\ handlers[h1].cmd.cancel /\ handlers[h1].channel = "c1"
    /\ handlers[h1].pc = "done" /\ outbox[h1] = ErrorsSent(h1)
    /\ pending_clips["c1"] = <<1, 2>>
    /\ handlers[h2].text = <<"$", "c", "h", "a", "t", " ", "-", "-", "l", "i", "s", "t", "e", "n", " ", "o", "n", " ", "-", "-", "b", "o", "g", "u", "s">>
    /\ handlers[h2].cmd.listen_mode = Some(<<"o", "n">>) /\ handlers[h2].channel = "c1"
    /\ handlers[h2].pc = "done" /\ outbox[h2] = ErrorsSent(h2)
    /\ ~channel_settings["c1"].listen_mode

\* ------------------------------------------------------------------------
\* C21
\* ------------------------------------------------------------------------

\* The list objects the object of call a refers to.
ListsOf(a) ==
  {calls[a].obj[ListFields(calls[a].grammar)[n]] :
     n \in 1..Len(ListFields(calls[a].grammar))}

\* What the object of call a holds now.
HeldNow(a) == deref(calls[a].obj, ListFields(calls[a].grammar), list_heap)

\* Two calls of the same parser on the same line end the same way with
\* equal objects.
C21_SameLineSameObject ==
  \A a, b \in 1..Len(calls) :
    calls[a].grammar = calls[b].grammar /\ calls[a].line = calls[b].line =>
      calls[a].exc = calls[b].exc /\ HeldNow(a) = HeldNow(b)

\* The list attributes of an object are lists of its own: distinct from
\* each other and from those of every other object.
C21_NothingShared ==
  \A a \in 1..Len(calls) :
    /\ Cardinality(ListsOf(a)) = Len(ListFields(calls[a].grammar))
    /\ \A b \in 1..Len(calls) : a # b => ListsOf(a) \cap ListsOf(b) = {}

\* A returned object holds what it held when it was returned, whatever was
\* called afterwards.
C21_NotAffected == \A a \in 1..Len(calls) : HeldNow(a) = calls[a].returned

\* C21: parsing is deterministic and stateless: for every grammar and every
\* line, two calls with the same line, in any order relative to calls on
\* other lines, return structurally equal command objects, and the errors
\* and list fields of one returned object are never shared with or affected
\* by another call.
C21_Stateless == C21_SameLineSameObject /\ C21_NothingShared /\ C21_NotAffected

\* The same clip line was parsed before and after a line of another
\* grammar; each of the three objects has errors and the clip objects have
\* a URL and a skip index.
C21_Witness ==
  /\ Len(calls) = 3
  /\ calls[1].line = <<"$", "c", "l", "i", "p", " ", "-", "u", " ", "a", " ", "-", "-", "s", "k", "i", "p", " ", "2", " ", "-", "-", "b", "o", "g", "u", "s">> /\ calls[1].grammar = "clip"
  /\ calls[3].line = calls[1].line /\ calls[3].grammar = "clip"
  /\ calls[2].grammar = "music" /\ calls[2].line = <<"$", "m", "u", "s", "i", "c", " ", "-", "y", " ", "-", "-", "q", "u", "e", "u", "e", " ", "u", "r", "l", "1", " ", "u", "r", "l", "2", " ", "u", "r", "l", "3">>
  /\ HeldNow(1).urls = <<<<"a">>>> /\ HeldNow(1).skip_indices = <<1>>
  /\ Len(HeldNow(1).errors) = 1 /\ Len(HeldNow(2).errors) > 1
  /\ HeldNow(3) = HeldNow(1)
  /\ calls[3].obj # calls[1].obj

\* ------------------------------------------------------------------------
\* C22
\* ------------------------------------------------------------------------

\* An iteration of the scan of _tokenize moves the character index by one
\* or by two.
C22_ScanAdvances ==
  tk_pc = "scan" /\ tk_pc' = "scan" => tk'.i \in {tk.i + 1, tk.i + 2}

\* An iteration of the token loop of a grammar that does not raise moves
\* the token index forward by one at least, and not past the end by more
\* than the tokens it read.
C22_LoopAdvances ==
  pc = "loop" /\ pc' = "loop" => i' >= i + 1

\* A call has been made.
C22_Called == pc # "idle" \/ tk_pc # "idle"

\* The call has returned or raised.
C22_Finished == pc \in {"done", "raised"} \/ tk_pc = "done"

\* C22: every loop of the parsing subsystem terminates: each iteration of
\* the _tokenize scan advances the character index by 1 or 2 and each
\* iteration of every grammar's token loop advances the token index by at
\* least 1, so every call finishes.
C22_Terminates ==
  /\ [][C22_ScanAdvances /\ C22_LoopAdvances]_vars
  /\ (C22_Called ~> C22_Finished)

\* A chat call whose loop went over a flag with a three-token value and a
\* second flag has returned with the token index at the end of the list.
C22_Witness ==
  /\ grammar = "chat" /\ pc = "done"
  /\ command_text = <<"$", "c", "h", "a", "t", " ", "-", "-", "p", "r", "o", "m", "p", "t", " ", "s", "e", "t", " ", "b", "e", " ", "b", "r", "i", "e", "f", " ", "-", "-", "c", "l", "e", "a", "r">>
  /\ Len(tokens) = 5 /\ i = 5
  /\ cmd.clear_history /\ Len(cmd.errors) = 1

\* ------------------------------------------------------------------------
\* C23
\* ------------------------------------------------------------------------

\* The token loop set none of the seven fields that has_action reads beside
\* show_status.
C23_NothingSet ==
  /\ cmd.llm = None /\ cmd.model = None /\ cmd.prompt_action = None
  /\ cmd.message = None /\ cmd.listen_mode = None
  /\ ~cmd.show_models /\ ~cmd.clear_history

\* C23: every ChatCommand that parse_chat_command returns satisfies
\* has_action(); when none of llm, model, prompt_action, message,
\* show_models, clear_history and listen_mode is set, show_status is True,
\* whatever errors the tokens produced.
C23_AlwaysAnAction ==
  grammar = "chat" /\ pc = "done" =>
    /\ chat_has_action(cmd)
    /\ (C23_NothingSet => cmd.show_status = TRUE)

\* A chat call in which every token produced an error has returned with
\* show_status as its only action.
C23_Witness ==
  /\ grammar = "chat" /\ pc = "done"
  /\ Len(tokens) >= 2 /\ Len(cmd.errors) >= Len(tokens)
  /\ C23_NothingSet /\ cmd.show_status

\* ------------------------------------------------------------------------
\* C24
\* ------------------------------------------------------------------------

\* The primary field of the returned object is set: the action of a music
\* or db command, the query of a wolfram or google command.
C24_PrimaryField ==
  IF grammar \in {"music", "db"}
  THEN cmd.action # None
  ELSE cmd.query # None /\ cmd.query # Some(<<>>)

\* C24: for the music, db, wolfram and google grammars every returned
\* object with an empty errors list has its primary field set.
C24_PrimarySet ==
  grammar \in {"music", "db", "wolfram", "google"} /\ pc = "done"
    /\ cmd.errors = <<>>
    => C24_PrimaryField

\* ------------------------------------------------------------------------
\* C25
\* ------------------------------------------------------------------------

\* The scan of _tokenize is at a character.
C25_AtChar == tk_pc = "scan" /\ tk.i < Len(tk_text)

\* The character is the quote that closes the open region.
C25_Closing == C25_AtChar /\ tk.in_quotes /\ tk_text[tk.i + 1] = tk.quote_char

\* The character is a quote that opens a region.
C25_Opening == C25_AtChar /\ ~tk.in_quotes /\ tk_text[tk.i + 1] \in QuoteChars

\* A closing quote appends the buffer to the tokens, whatever it holds, and
\* empties it.
C25_ClosingEmits ==
  C25_Closing /\ tk' # tk =>
    /\ tk'.tokens = Append(tk.tokens, tk.current_token)
    /\ tk'.current_token = <<>>

\* An opening quote leaves the tokens and the buffer as they are.
C25_OpeningSilent ==
  C25_Opening /\ tk' # tk =>
    /\ tk'.tokens = tk.tokens
    /\ tk'.current_token = tk.current_token

\* A token added by a space or by the final flush is not empty.
C25_OthersNonEmpty ==
  ~C25_Closing /\ tk_pc = "scan" /\ tk'.tokens # tk.tokens =>
    /\ Len(tk'.tokens) = Len(tk.tokens) + 1
    /\ tk'.tokens[Len(tk'.tokens)] # <<>>

\* The three texts of the statement and their tokens.
C25_Examples ==
  tk_pc = "done" =>
    /\ (tk_text = <<"\"", "\"">> => tk.tokens = <<<<>>>>)
    /\ (tk_text = <<"\"", "a", "\"", "\"", "b", "\"">> => tk.tokens = <<<<"a">>, <<"b">>>>)
    /\ (tk_text = <<"a", "\"", "b", " ", "c", "\"">> => tk.tokens = <<<<"a", "b", " ", "c">>>>)

\* C25: a closing quote always emits the current buffer as a token, even
\* when the buffer is empty, and an opening quote never emits; `""` gives
\* one empty token, `"a""b"` the tokens a and b, `a"b c"` the token `ab c`;
\* a token that no closing quote ended is never empty.
C25_QuoteEmission ==
  /\ []C25_Examples
  /\ [][C25_ClosingEmits /\ C25_OpeningSilent /\ C25_OthersNonEmpty]_vars

\* _tokenize has returned one empty token for the text `""`, and two tokens
\* for a text in which a region closes on an empty buffer after a word.
C25_Witness ==
  /\ tk_pc = "done"
  /\ \/ tk_text = <<"\"", "\"">> /\ tk.tokens = <<<<>>>>
     \/ tk_text = <<"a", " ", "\"", "\"">> /\ tk.tokens = <<<<"a">>, <<>>>>

\* ------------------------------------------------------------------------
\* C26
\* ------------------------------------------------------------------------

\* Lines that give --send one quoted token that begins with a hyphen.
C26_Lines == {<<"$", "c", "h", "a", "t", " ", "-", "-", "s", "e", "n", "d", " ", "\"", "-", "h", "e", "l", "l", "o", " ", "t", "h", "e", "r", "e", "\"">>, <<"$", "c", "h", "a", "t", " ", "-", "-", "s", "e", "n", "d", " ", "\"", "-", "5", " ", "a", "p", "p", "l", "e", "s", "\"">>}

\* C26: a single quoted token that follows a value-requiring flag is taken
\* as the value of the flag whatever its content: `--send "-hello there"`
\* sets the message to that content and produces no error.
C26_QuotedValueTaken ==
  grammar = "chat" /\ pc = "done" /\ command_text \in C26_Lines =>
    /\ cmd.message = Some(tokens[2])
    /\ cmd.errors = <<>>

\* ------------------------------------------------------------------------
\* C27
\* ------------------------------------------------------------------------

\* The token loop is at a flag that takes a value, and _consume_value
\* collected at least one token for it.
C27_Collected ==
  /\ grammar \in {"chat", "wolfram", "google", "reminder"}
  /\ pc = "loop" /\ i < Len(tokens)
  /\ tokens[i + 1] \in ValueFlags(grammar)
  /\ _consume_value(tokens, i + 1).value # None

\* The loop goes on after every token that was collected.
C27_NotDispatched ==
  C27_Collected /\ pc' = "loop" => i' >= i + _consume_value(tokens, i + 1).consumed

\* Lines with one bad value: an empty quoted message, a listen mode that is
\* neither on nor off.
C27_Lines == {<<"$", "c", "h", "a", "t", " ", "-", "-", "s", "e", "n", "d", " ", "\"", "\"">>, <<"$", "c", "h", "a", "t", " ", "-", "-", "l", "i", "s", "t", "e", "n", " ", "s", "e", "t">>}

\* C27: in the chat, wolfram, google and reminder grammars a token that
\* _consume_value collected as a value is never also dispatched as a flag,
\* so a single bad value produces exactly one error.
C27_OneRolePerToken ==
  /\ [](grammar = "chat" /\ pc = "done" /\ command_text \in C27_Lines
          => Len(cmd.errors) = 1)
  /\ [][C27_NotDispatched]_vars

\* ------------------------------------------------------------------------
\* C28
\* ------------------------------------------------------------------------

\* The text holds no quote character.
C28_QuoteFree == \A k \in 1..Len(tk_text) : tk_text[k] \notin QuoteChars

RECURSIVE C28_Concat(_, _)
\* The tokens from the k-th on, written one after the other.
C28_Concat(toks, k) ==
  IF k > Len(toks) THEN <<>> ELSE toks[k] \o C28_Concat(toks, k + 1)

\* The text with its whitespace removed.
C28_Squeezed == SelectSeq(tk_text, LAMBDA c : ~isspace(c))

\* C28: for a text with no quote character _tokenize returns the same list
\* as splitting on whitespace: no token is empty, no token holds
\* whitespace, backslashes are kept, and the tokens written one after the
\* other give the text with its whitespace removed.
C28_LikeSplit ==
  tk_pc = "done" /\ C28_QuoteFree =>
    /\ tk.tokens = split(tk_text)
    /\ \A k \in 1..Len(tk.tokens) :
         /\ tk.tokens[k] # <<>>
         /\ \A j \in 1..Len(tk.tokens[k]) : ~isspace(tk.tokens[k][j])
    /\ C28_Concat(tk.tokens, 1) = C28_Squeezed

\* _tokenize has returned two tokens, one of them with a backslash, for a
\* quote-free text that begins with a space.
C28_Witness ==
  /\ tk_pc = "done" /\ C28_QuoteFree
  /\ Len(tk_text) = 5 /\ tk_text[1] = " "
  /\ Len(tk.tokens) = 2
  /\ \E j \in 1..Len(tk.tokens[2]) : tk.tokens[2][j] = "\\"

\* ------------------------------------------------------------------------
\* C29
\* ------------------------------------------------------------------------

\* Handler h takes its step on the update path for a command with --clip.
C29_UpdateStep(h) ==
  /\ ClipAccepted(h)
  /\ ~handlers[h].cmd.cancel /\ ~handlers[h].cmd.confirm
  /\ handlers[h].cmd.clip_index # None
  /\ handlers'[h].pc # "parsed"

\* The number the user gave is not that of a pending clip of the channel.
C29_OutOfRange(h) ==
  LET n == handlers[h].cmd.clip_index[1] + 1
  IN  ~(1 <= n /\ n <= Len(pending_clips[handlers[h].channel]))

\* No clip is changed, and where there are pending clips the handler ends
\* with the invalid-index notice.
C29_Rejected(h) ==
  /\ clip_heap' = clip_heap
  /\ pending_clips[handlers[h].channel] # <<>> =>
       /\ handlers'[h].pc = "done"
       /\ Len(outbox'[h]) = Len(outbox[h]) + 1
       /\ outbox'[h][Len(outbox'[h])].kind = "invalid_index"

\* C29: on the update path a pending clip is modified only when the
\* number N of `--clip N` satisfies 1 <= N <= number of pending clips of
\* the channel; for any other N, 0 and negative numbers included, the
\* handler reports an invalid index and leaves every pending clip unchanged.
C29_OnlyInRange ==
  [][\A h \in Handlers : C29_UpdateStep(h) /\ C29_OutOfRange(h) => C29_Rejected(h)]_vars

\* ------------------------------------------------------------------------
\* C30
\* ------------------------------------------------------------------------

\* Handler h ends a --cancel in this step.
C30_CancelStep(h) ==
  ClipAccepted(h) /\ handlers[h].cmd.cancel /\ handlers'[h].pc = "done"

\* Handler h ends in this step a --confirm whose clips are among those
\* pending now: the list stored for the channel is the one it read.
C30_ConfirmStep(h) ==
  /\ handlers[h].pc = "confirm" /\ handlers'[h].pc = "done"
  /\ \A j \in 1..Len(handlers[h].clips) :
       \E k \in 1..Len(pending_clips[handlers[h].channel]) :
         pending_clips[handlers[h].channel][k] = handlers[h].clips[j]

\* The pending clips of channel c are removed in this step.
C30_Removed(c) == pending_clips[c] # <<>> /\ pending_clips'[c] = <<>>

\* C30: pending clips of a channel are removed only by a --cancel for that
\* channel or by the --confirm that read and processed them, so clips
\* stored while an earlier --confirm is processing stay pending when that
\* confirm finishes; the pending clips of a channel change only in a step of
\* a handler of that channel.
C30_RemovedByOwner ==
  [][\A c \in Channels :
       /\ C30_Removed(c) =>
            \E h \in Handlers :
              handlers[h].channel = c /\ (C30_CancelStep(h) \/ C30_ConfirmStep(h))
       /\ pending_clips'[c] # pending_clips[c] =>
            \E h \in Handlers :
              handlers[h].channel = c /\ handlers'[h] # handlers[h]]_vars

====
